---------------------------- MODULE Spec2Model ----------------------------
(***************************************************************************)
(* ezcl (src/ezcl.hpp): a host-side wrapper that owns an OpenCL context    *)
(* and command queue (class Device), device buffers (class Array<T>) and   *)
(* dispatches elementwise add/sub/mul/div kernels.                          *)
(*                                                                         *)
(* The host objects are modelled by slots that are used once: a slot is    *)
(* "unborn" until a constructor runs in it, an "object" while the C++      *)
(* object lives, and "destroyed" (or "failed", when the constructor threw) *)
(* afterwards.  The OpenCL platform is modelled by counters of the handles *)
(* it has handed out, the number of release calls it has received for each *)
(* handle, the content of each buffer and the commands pending in each     *)
(* queue.                                                                  *)
(***************************************************************************)
EXTENDS Integers, Sequences, FiniteSets, TLC

\* ------------------------------------------------------------------ bounds
MaxDev == 3
MaxCtx == 3
MaxArr == 3
MaxLen == 3
\* Programs a run may create: where every overload and every choice of
\* buffers is drawn, and where a dispatch is repeated.
MaxProg == 1
MaxRepeat == 2
\* The largest grid (work-item count) a kernel is run on.
MaxGrid == 5
\* Reduced widths: the element type, the kernel's "int gid" and its "ulong s".
ElemBits == 2
IntBits == 2
UlongBits == 4

DevIds == 1..MaxDev
CtxIds == 1..MaxCtx
ArrIds == 1..MaxArr

\* ---------------------------------------------------------------- handles
NULL == 0
\* A pointer value that no create call ever returned.
WILD == -1

\* The values an uninitialised handle member may hold: null, an address the
\* platform never returned, or the bits of a handle handed out earlier.
Indeterminate(n) == {NULL, WILD} \cup (1..n)

HandleValues == {WILD} \cup CtxIds

\* ------------------------------------------------------------------ state
VARIABLES
    dev,        \* [DevIds -> [st, context, queue, device]]: the Device objects
    arr,        \* [ArrIds -> [st, device, data, access, size, host]]: the Arrays
    nCtx,       \* contexts created so far: handles 1..nCtx
    nQueue,     \* command queues created so far: handles 1..nQueue
    ctxRel,     \* [HandleValues -> Nat]: clReleaseContext calls per value
    queueRel,   \* [HandleValues -> Nat]: clReleaseCommandQueue calls per value
    queueCtx,   \* [CtxIds -> context]: the context each queue was created on
    mem,        \* Seq of [ctx, flags, content, rel]: the cl_mem objects
    prog,       \* Seq of [ctx, src, built, rel]: the cl_program objects
    kern,       \* Seq of [prog, name, rel]: the cl_kernel objects
    cmds,       \* [CtxIds -> Seq of commands]: the commands pending per queue
    launches,   \* Seq of commands: every kernel launch enqueued so far
    hostpc,     \* "idle", or "reading" while a blocking read waits
    last        \* the last host call: its name, objects, error, primitives
                \* and, for a read, the content of its destination

vars == <<dev, arr, nCtx, nQueue, ctxRel, queueRel, queueCtx, mem, prog, kern,
          cmds, launches, hostpc, last>>

sessionVars == <<nCtx, nQueue, ctxRel, queueRel, queueCtx>>
deviceVars == <<mem, prog, kern, cmds, launches, hostpc>>
platformVars == <<sessionVars, arr, deviceVars>>

\* The cl_device_id the caller picked (src/main.cpp:30); one device only.
TheDevice == 1

NoErr == "none"

Call(name, arg, ret) == <<name, arg, ret>>

Result(op, args, err, calls) ==
    [op |-> op, args |-> args, err |-> err, calls |-> calls, out |-> <<>>]

\* checkErr: throws when the primitive did not return CL_SUCCESS.
checkErr(failed, name) == IF failed THEN name ELSE NoErr

ContextLive(h) == h \in 1..nCtx /\ ctxRel[h] = 0
QueueLive(h) == h \in 1..nQueue /\ queueRel[h] = 0
MemLive(h) == h \in 1..Len(mem) /\ mem[h].rel = 0

Unborn == [st |-> "unborn", context |-> NULL, queue |-> NULL, device |-> NULL]

NoArray ==
    [st |-> "unborn", device |-> NULL, data |-> NULL, access |-> NULL,
     size |-> 0, host |-> <<>>]

Init ==
    /\ dev = [d \in DevIds |-> Unborn]
    /\ arr = [x \in ArrIds |-> NoArray]
    /\ nCtx = 0
    /\ nQueue = 0
    /\ ctxRel = [h \in HandleValues |-> 0]
    /\ queueRel = [h \in HandleValues |-> 0]
    /\ queueCtx = [h \in CtxIds |-> NULL]
    /\ mem = <<>>
    /\ prog = <<>>
    /\ kern = <<>>
    /\ cmds = [h \in CtxIds |-> <<>>]
    /\ launches = <<>>
    /\ hostpc = "idle"
    /\ last = Result("start", <<>>, NoErr, <<>>)

\* The k-th object constructed lives in slot k.
NextDev(d) == dev[d].st = "unborn" /\ \A e \in 1..(d - 1) : dev[e].st # "unborn"
NextArr(x) == arr[x].st = "unborn" /\ \A y \in 1..(x - 1) : arr[y].st # "unborn"

\* ------------------------------------------------------- Device: lifecycle

\* Device() {}: no member is initialised.
DefaultConstruct(d, c0, q0, v0) ==
    /\ hostpc = "idle"
    /\ NextDev(d)
    /\ c0 \in Indeterminate(nCtx)
    /\ q0 \in Indeterminate(nQueue)
    /\ v0 \in {NULL, TheDevice}
    /\ dev' = [dev EXCEPT ![d] =
                  [st |-> "object", context |-> c0, queue |-> q0, device |-> v0]]
    /\ last' = Result("Device()", <<d>>, NoErr, <<>>)
    /\ UNCHANGED platformVars

OpenFaults == {"none", "clCreateContext", "clCreateCommandQueueWithProperties"}

\* Device(cl_platform_id, cl_device_id): the context, then the queue; each
\* checkErr throws out of the constructor, so no object (and no destructor
\* call) exists afterwards and nothing acquired before the throw is released.
Open(d, fault) ==
    /\ hostpc = "idle"
    /\ NextDev(d)
    /\ fault \in OpenFaults
    /\ nCtx < MaxCtx
    /\ IF fault = "clCreateContext"
       THEN /\ dev' = [dev EXCEPT ![d] =
                          [st |-> "failed", context |-> NULL, queue |-> NULL,
                           device |-> TheDevice]]
            /\ last' = Result("Device(pf,dev)", <<d>>,
                              checkErr(TRUE, "clCreateContext"),
                              <<Call("clCreateContext", TheDevice, NULL)>>)
            /\ UNCHANGED platformVars
       ELSE LET c == nCtx + 1
                q == nQueue + 1 IN
            IF fault = "clCreateCommandQueueWithProperties"
            THEN /\ nCtx' = c
                 /\ dev' = [dev EXCEPT ![d] =
                               [st |-> "failed", context |-> c, queue |-> NULL,
                                device |-> TheDevice]]
                 /\ last' = Result("Device(pf,dev)", <<d>>,
                                   checkErr(TRUE, "clCreateCommandQueueWithProperties"),
                                   <<Call("clCreateContext", TheDevice, c),
                                     Call("clCreateCommandQueueWithProperties", c, NULL)>>)
                 /\ UNCHANGED <<nQueue, ctxRel, queueRel, queueCtx, arr, deviceVars>>
            ELSE /\ nCtx' = c
                 /\ nQueue' = q
                 /\ queueCtx' = [queueCtx EXCEPT ![q] = c]
                 /\ dev' = [dev EXCEPT ![d] =
                               [st |-> "object", context |-> c, queue |-> q,
                                device |-> TheDevice]]
                 /\ last' = Result("Device(pf,dev)", <<d>>, NoErr,
                                   <<Call("clCreateContext", TheDevice, c),
                                     Call("clCreateCommandQueueWithProperties", c, q)>>)
                 /\ UNCHANGED <<ctxRel, queueRel, arr, deviceVars>>

\* Mutant: the teardown releases the context before the queue.
ReleaseCallsContextFirst(s) ==
    (IF s.context # NULL THEN <<Call("clReleaseContext", s.context, NULL)>> ELSE <<>>)
    \o (IF s.queue # NULL THEN <<Call("clReleaseCommandQueue", s.queue, NULL)>> ELSE <<>>)

\* The release calls of a teardown: the queue if it is not null, then the
\* context if it is not null.
ReleaseCalls(s) ==
    (IF s.queue # NULL THEN <<Call("clReleaseCommandQueue", s.queue, NULL)>> ELSE <<>>)
    \o (IF s.context # NULL THEN <<Call("clReleaseContext", s.context, NULL)>> ELSE <<>>)

ReleaseQueue(rel, h) == IF h # NULL THEN [rel EXCEPT ![h] = @ + 1] ELSE rel
ReleaseContext(rel, h) == IF h # NULL THEN [rel EXCEPT ![h] = @ + 1] ELSE rel

\* Mutant: the move constructor leaves other's context and queue in place.
MoveConstructKeepsSource(d, o) ==
    /\ hostpc = "idle"
    /\ NextDev(d)
    /\ dev[o].st = "object"
    /\ dev' = [dev EXCEPT
                  ![d] = [st |-> "object", context |-> dev[o].context,
                          queue |-> dev[o].queue, device |-> dev[o].device]]
    /\ last' = Result("Device(Device&&)", <<d, o>>, NoErr, <<>>)
    /\ UNCHANGED platformVars

\* Device(Device&& other): copies the four members, nulls other's context
\* and queue.
MoveConstruct(d, o) ==
    /\ hostpc = "idle"
    /\ NextDev(d)
    /\ dev[o].st = "object"
    /\ dev' = [dev EXCEPT
                  ![d] = [st |-> "object", context |-> dev[o].context,
                          queue |-> dev[o].queue, device |-> dev[o].device],
                  ![o] = [@ EXCEPT !.context = NULL, !.queue = NULL]]
    /\ last' = Result("Device(Device&&)", <<d, o>>, NoErr, <<>>)
    /\ UNCHANGED platformVars

\* Mutant: the move assignment adopts other's handles without releasing its
\* own.
MoveAssignLeaks(d, o) ==
    /\ hostpc = "idle"
    /\ dev[d].st = "object"
    /\ dev[o].st = "object"
    /\ IF d # o
       THEN dev' = [dev EXCEPT
                       ![d] = [st |-> "object", context |-> dev[o].context,
                               queue |-> dev[o].queue, device |-> dev[o].device],
                       ![o] = [@ EXCEPT !.context = NULL, !.queue = NULL]]
       ELSE UNCHANGED dev
    /\ last' = Result("operator=(Device&&)", <<d, o>>, NoErr, <<>>)
    /\ UNCHANGED platformVars

\* Mutant: the move assignment adopts other's handles first and then
\* releases what it holds, the adopted handles.
MoveAssignReleasesAdopted(d, o) ==
    /\ hostpc = "idle"
    /\ dev[d].st = "object"
    /\ dev[o].st = "object"
    /\ IF d # o
       THEN /\ queueRel' = ReleaseQueue(queueRel, dev[o].queue)
            /\ ctxRel' = ReleaseContext(ctxRel, dev[o].context)
            /\ dev' = [dev EXCEPT
                          ![d] = [st |-> "object", context |-> dev[o].context,
                                  queue |-> dev[o].queue, device |-> dev[o].device],
                          ![o] = [@ EXCEPT !.context = NULL, !.queue = NULL]]
            /\ last' = Result("operator=(Device&&)", <<d, o>>, NoErr,
                              ReleaseCalls(dev[o]))
       ELSE /\ UNCHANGED <<dev, queueRel, ctxRel>>
            /\ last' = Result("operator=(Device&&)", <<d, o>>, NoErr, <<>>)
    /\ UNCHANGED <<nCtx, nQueue, queueCtx, arr, deviceVars>>

\* Device& operator=(Device&& other)
MoveAssign(d, o) ==
    /\ hostpc = "idle"
    /\ dev[d].st = "object"
    /\ dev[o].st = "object"
    /\ IF d # o
       THEN /\ queueRel' = ReleaseQueue(queueRel, dev[d].queue)
            /\ ctxRel' = ReleaseContext(ctxRel, dev[d].context)
            /\ dev' = [dev EXCEPT
                          ![d] = [st |-> "object", context |-> dev[o].context,
                                  queue |-> dev[o].queue, device |-> dev[o].device],
                          ![o] = [@ EXCEPT !.context = NULL, !.queue = NULL]]
            /\ last' = Result("operator=(Device&&)", <<d, o>>, NoErr,
                              ReleaseCalls(dev[d]))
       ELSE /\ UNCHANGED <<dev, queueRel, ctxRel>>
            /\ last' = Result("operator=(Device&&)", <<d, o>>, NoErr, <<>>)
    /\ UNCHANGED <<nCtx, nQueue, queueCtx, arr, deviceVars>>

\* ~Device()
Destroy(d) ==
    /\ hostpc = "idle"
    /\ dev[d].st = "object"
    /\ queueRel' = ReleaseQueue(queueRel, dev[d].queue)
    /\ ctxRel' = ReleaseContext(ctxRel, dev[d].context)
    /\ dev' = [dev EXCEPT ![d] =
                  [@ EXCEPT !.st = "destroyed", !.context = NULL, !.queue = NULL]]
    /\ last' = Result("~Device()", <<d>>, NoErr, ReleaseCalls(dev[d]))
    /\ UNCHANGED <<nCtx, nQueue, queueCtx, arr, deviceVars>>

\* ------------------------------------------------------------ AccessType
CL_MEM_READ_WRITE == 1
CL_MEM_WRITE_ONLY == 2
CL_MEM_READ_ONLY == 4
CL_MEM_COPY_HOST_PTR == 32

READ_WRITE == CL_MEM_READ_WRITE + CL_MEM_COPY_HOST_PTR
READ_ONLY == CL_MEM_READ_ONLY + CL_MEM_COPY_HOST_PTR
WRITE_ONLY == CL_MEM_WRITE_ONLY + CL_MEM_COPY_HOST_PTR

AccessType == {READ_WRITE, READ_ONLY, WRITE_ONLY}

\* enum AccessMethod : bool { WRITE, READ }
WRITE == FALSE
READ == TRUE

\* Whether the bit(s) of flag are set in flags (flag is a power of two).
HasFlag(flags, flag) == (flags \div flag) % 2 = 1

\* Mutant: the two branches of the access check are exchanged.
checkAccessSwapped(a, am) ==
    LET at == a.access IN
    IF at = READ_WRITE THEN TRUE
    ELSE IF am = WRITE THEN at = READ_ONLY
    ELSE at = WRITE_ONLY

\* Mutant: the access check has lost its READ_WRITE case.
checkAccessNoReadWrite(a, am) ==
    LET at == a.access IN
    IF am = WRITE THEN at = WRITE_ONLY
    ELSE at = READ_ONLY

\* bool checkAccess(const Array<T>& a, const AccessMethod am)
checkAccess(a, am) ==
    LET at == a.access IN
    IF at = READ_WRITE THEN TRUE
    ELSE IF am = WRITE THEN at = WRITE_ONLY
    ELSE at = READ_ONLY

\* ------------------------------------------------------------ element type
\* The element type T: an unsigned integer of ElemBits bits.
ElemMod == 2 ^ ElemBits
Elem == 0..(ElemMod - 1)

\* The host vectors the caller fills (src/main.cpp:36-43): a[i] = i for the
\* first array, b[i] = s - i for the second, and c(s), all zero, for the
\* others.
HostVector(x, n) ==
    [i \in 1..n |-> CASE x = 1 -> (i - 1) % ElemMod
                      [] x = 2 -> (n - i + 1) % ElemMod
                      [] OTHER -> 0]

\* The lengths the caller chooses between.
Lens == {MaxLen - 1, MaxLen}

Zeros(n) == [i \in 1..n |-> 0]

\* ------------------------------------------------- Array<T>: construction
ArrayFaults == {"none", "clCreateBuffer"}

\* Mutant: the buffer is created without copying the host data.
CreateBufferNoCopy(ctx, flags, dat, junk) ==
    [ctx |-> ctx, flags |-> flags, content |-> junk, rel |-> 0]

\* clCreateBuffer(context, flags, size, host_ptr): the content is copied from
\* host_ptr when CL_MEM_COPY_HOST_PTR is set, and is undefined otherwise.
CreateBuffer(ctx, flags, dat, junk) ==
    [ctx |-> ctx, flags |-> flags,
     content |-> IF HasFlag(flags, CL_MEM_COPY_HOST_PTR) THEN dat ELSE junk,
     rel |-> 0]

\* Array(Device& dev, AccessType acc, const std::vector<T>& dat)
ArrayCreate(x, d, acc, dat, fault) ==
    /\ hostpc = "idle"
    /\ NextArr(x)
    /\ dev[d].st = "object"
    /\ acc \in AccessType
    /\ fault \in ArrayFaults
    /\ LET ctx == dev[d].context
           failed == fault = "clCreateBuffer" \/ ~ContextLive(ctx)
           h == Len(mem) + 1 IN
       /\ mem' = IF failed THEN mem
                 ELSE Append(mem, CreateBuffer(ctx, acc, dat, Zeros(Len(dat))))
       /\ arr' = [arr EXCEPT ![x] =
                     [st |-> IF failed THEN "failed" ELSE "object",
                      device |-> d, data |-> IF failed THEN NULL ELSE h,
                      access |-> acc, size |-> Len(dat), host |-> dat]]
       /\ last' = Result("Array(dev,acc,dat)", <<x>>, checkErr(failed, "clCreateBuffer"),
                         <<Call("clCreateBuffer", ctx, IF failed THEN NULL ELSE h)>>)
    /\ UNCHANGED <<dev, sessionVars, prog, kern, cmds, launches, hostpc>>

\* ------------------------------------------------ Array<T>: moves, teardown
\* if (data) clReleaseMemObject(data)
ReleaseMem(m, h) == IF h # NULL THEN [m EXCEPT ![h].rel = @ + 1] ELSE m

ReleaseMemCalls(h) ==
    IF h # NULL THEN <<Call("clReleaseMemObject", h, NULL)>> ELSE <<>>

\* Mutant: the move constructor leaves other's handle and size in place.
ArrayMoveConstructKeepsSource(x, o) ==
    /\ hostpc = "idle"
    /\ NextArr(x)
    /\ arr[o].st = "object"
    /\ arr' = [arr EXCEPT ![x] = arr[o]]
    /\ last' = Result("Array(Array&&)", <<x, o>>, NoErr, <<>>)
    /\ UNCHANGED <<dev, sessionVars, deviceVars>>

\* Array(Array&& other): device, data, access and _size are other's; other
\* is left with a null handle and size 0.
ArrayMoveConstruct(x, o) ==
    /\ hostpc = "idle"
    /\ NextArr(x)
    /\ arr[o].st = "object"
    /\ arr' = [arr EXCEPT ![x] = arr[o],
                          ![o] = [@ EXCEPT !.data = NULL, !.size = 0,
                                           !.host = <<>>]]
    /\ last' = Result("Array(Array&&)", <<x, o>>, NoErr, <<>>)
    /\ UNCHANGED <<dev, sessionVars, deviceVars>>

\* Mutant: the move assignment does not take other's access mode.
ArrayMoveAssignKeepsAccess(x, o) ==
    /\ hostpc = "idle"
    /\ arr[x].st = "object"
    /\ arr[o].st = "object"
    /\ IF x # o
       THEN /\ mem' = ReleaseMem(mem, arr[x].data)
            /\ arr' = [arr EXCEPT
                          ![x] = [@ EXCEPT !.data = arr[o].data,
                                           !.size = arr[o].size,
                                           !.host = arr[o].host],
                          ![o] = [@ EXCEPT !.data = NULL, !.size = 0,
                                           !.host = <<>>]]
            /\ last' = Result("operator=(Array&&)", <<x, o>>, NoErr,
                              ReleaseMemCalls(arr[x].data))
       ELSE /\ UNCHANGED <<arr, mem>>
            /\ last' = Result("operator=(Array&&)", <<x, o>>, NoErr, <<>>)
    /\ UNCHANGED <<dev, sessionVars, prog, kern, cmds, launches, hostpc>>

\* Mutant: the move assignment has no self-assignment guard.
ArrayMoveAssignNoSelfGuard(x, o) ==
    /\ hostpc = "idle"
    /\ arr[x].st = "object"
    /\ arr[o].st = "object"
    /\ mem' = ReleaseMem(mem, arr[x].data)
    /\ arr' = [arr EXCEPT
                  ![x] = [@ EXCEPT !.data = arr[o].data,
                                   !.access = arr[o].access,
                                   !.size = arr[o].size,
                                   !.host = arr[o].host],
                  ![o] = [@ EXCEPT !.data = NULL, !.size = 0, !.host = <<>>]]
    /\ last' = Result("operator=(Array&&)", <<x, o>>, NoErr,
                      ReleaseMemCalls(arr[x].data))
    /\ UNCHANGED <<dev, sessionVars, prog, kern, cmds, launches, hostpc>>

\* Array& operator=(Array&& other): unless other is *this, releases its own
\* allocation if it has one, then takes other's data, access and _size (the
\* reference member device stays bound as it was) and leaves other with a
\* null handle and size 0.
ArrayMoveAssign(x, o) ==
    /\ hostpc = "idle"
    /\ arr[x].st = "object"
    /\ arr[o].st = "object"
    /\ IF x # o
       THEN /\ mem' = ReleaseMem(mem, arr[x].data)
            /\ arr' = [arr EXCEPT
                          ![x] = [@ EXCEPT !.data = arr[o].data,
                                           !.access = arr[o].access,
                                           !.size = arr[o].size,
                                           !.host = arr[o].host],
                          ![o] = [@ EXCEPT !.data = NULL, !.size = 0,
                                           !.host = <<>>]]
            /\ last' = Result("operator=(Array&&)", <<x, o>>, NoErr,
                              ReleaseMemCalls(arr[x].data))
       ELSE /\ UNCHANGED <<arr, mem>>
            /\ last' = Result("operator=(Array&&)", <<x, o>>, NoErr, <<>>)
    /\ UNCHANGED <<dev, sessionVars, prog, kern, cmds, launches, hostpc>>

\* Mutant: the destructor also releases the queue of the session the buffer
\* was created on.
ArrayDestroyReleasesQueue(x) ==
    /\ hostpc = "idle"
    /\ arr[x].st = "object"
    /\ mem' = ReleaseMem(mem, arr[x].data)
    /\ queueRel' = ReleaseQueue(queueRel, dev[arr[x].device].queue)
    /\ arr' = [arr EXCEPT ![x] = [NoArray EXCEPT !.st = "destroyed"]]
    /\ last' = Result("~Array()", <<x>>, NoErr, ReleaseMemCalls(arr[x].data))
    /\ UNCHANGED <<dev, nCtx, nQueue, ctxRel, queueCtx, prog, kern, cmds,
                   launches, hostpc>>

\* ~Array(): releases the allocation unless the handle is null; nothing of
\* the object is left.
ArrayDestroy(x) ==
    /\ hostpc = "idle"
    /\ arr[x].st = "object"
    /\ mem' = ReleaseMem(mem, arr[x].data)
    /\ arr' = [arr EXCEPT ![x] = [NoArray EXCEPT !.st = "destroyed"]]
    /\ last' = Result("~Array()", <<x>>, NoErr, ReleaseMemCalls(arr[x].data))
    /\ UNCHANGED <<dev, sessionVars, prog, kern, cmds, launches, hostpc>>

\* ------------------------------------------------------------ the kernel
\* The four operation families and the operator each passes to
\* makeKernelFunction.
Fns == {"add", "sub", "mul", "div"}

\* The forty overloads of add, sub, mul and div, one per element type of the
\* three Array<T>& parameters: the name, the device type name and the operator
\* given to makeKernelFunction, the name given to clCreateKernel, and the
\* body as the sequence of its steps, each with the message of the exception
\* it can raise ("none" when it raises nothing).
Overloads ==
    {
     [fn |-> "add", elem |-> "char", generated |-> "add_int8", typeName |-> "char",
      opOperator |-> "+", extracted |-> "add_int8",   \* lines 165-206
      body |-> <<<<"checkAccess", "invalid Array access permissions">>,
              <<"getSize", "all Arrays must be the same size">>,
              <<"makeKernelFunction", "none">>,
              <<"clCreateProgramWithSource", "clCreateProgramWithSource">>,
              <<"clBuildProgram", "clBuildProgram">>,
              <<"clCreateKernel", "clCreateKernel">>,
              <<"clSetKernelArg 0 aMem", "clSetKernelArg a">>,
              <<"clSetKernelArg 1 bMem", "clSetKernelArg b">>,
              <<"clSetKernelArg 2 cMem", "clSetKernelArg c">>,
              <<"clSetKernelArg 3 s", "clSetKernelArg s">>,
              <<"clEnqueueNDRangeKernel", "clEnqueueNDRangeKernel">>,
              <<"clReleaseKernel", "none">>, <<"clReleaseProgram", "none">>>>],
     [fn |-> "add", elem |-> "short", generated |-> "add_int16", typeName |-> "short",
      opOperator |-> "+", extracted |-> "add_int16",   \* lines 208-249
      body |-> <<<<"checkAccess", "invalid Array access permissions">>,
              <<"getSize", "all Arrays must be the same size">>,
              <<"makeKernelFunction", "none">>,
              <<"clCreateProgramWithSource", "clCreateProgramWithSource">>,
              <<"clBuildProgram", "clBuildProgram">>,
              <<"clCreateKernel", "clCreateKernel">>,
              <<"clSetKernelArg 0 aMem", "clSetKernelArg a">>,
              <<"clSetKernelArg 1 bMem", "clSetKernelArg b">>,
              <<"clSetKernelArg 2 cMem", "clSetKernelArg c">>,
              <<"clSetKernelArg 3 s", "clSetKernelArg s">>,
              <<"clEnqueueNDRangeKernel", "clEnqueueNDRangeKernel">>,
              <<"clReleaseKernel", "none">>, <<"clReleaseProgram", "none">>>>],
     [fn |-> "add", elem |-> "int", generated |-> "add_int32", typeName |-> "int",
      opOperator |-> "+", extracted |-> "add_int32",   \* lines 251-292
      body |-> <<<<"checkAccess", "invalid Array access permissions">>,
              <<"getSize", "all Arrays must be the same size">>,
              <<"makeKernelFunction", "none">>,
              <<"clCreateProgramWithSource", "clCreateProgramWithSource">>,
              <<"clBuildProgram", "clBuildProgram">>,
              <<"clCreateKernel", "clCreateKernel">>,
              <<"clSetKernelArg 0 aMem", "clSetKernelArg a">>,
              <<"clSetKernelArg 1 bMem", "clSetKernelArg b">>,
              <<"clSetKernelArg 2 cMem", "clSetKernelArg c">>,
              <<"clSetKernelArg 3 s", "clSetKernelArg s">>,
              <<"clEnqueueNDRangeKernel", "clEnqueueNDRangeKernel">>,
              <<"clReleaseKernel", "none">>, <<"clReleaseProgram", "none">>>>],
     [fn |-> "add", elem |-> "long long int", generated |-> "add_int64", typeName |-> "long long int",
      opOperator |-> "+", extracted |-> "add_int64",   \* lines 294-335
      body |-> <<<<"checkAccess", "invalid Array access permissions">>,
              <<"getSize", "all Arrays must be the same size">>,
              <<"makeKernelFunction", "none">>,
              <<"clCreateProgramWithSource", "clCreateProgramWithSource">>,
              <<"clBuildProgram", "clBuildProgram">>,
              <<"clCreateKernel", "clCreateKernel">>,
              <<"clSetKernelArg 0 aMem", "clSetKernelArg a">>,
              <<"clSetKernelArg 1 bMem", "clSetKernelArg b">>,
              <<"clSetKernelArg 2 cMem", "clSetKernelArg c">>,
              <<"clSetKernelArg 3 s", "clSetKernelArg s">>,
              <<"clEnqueueNDRangeKernel", "clEnqueueNDRangeKernel">>,
              <<"clReleaseKernel", "none">>, <<"clReleaseProgram", "none">>>>],
     [fn |-> "add", elem |-> "unsigned char", generated |-> "add_uint8", typeName |-> "unsigned char",
      opOperator |-> "+", extracted |-> "add_uint8",   \* lines 337-378
      body |-> <<<<"checkAccess", "invalid Array access permissions">>,
              <<"getSize", "all Arrays must be the same size">>,
              <<"makeKernelFunction", "none">>,
              <<"clCreateProgramWithSource", "clCreateProgramWithSource">>,
              <<"clBuildProgram", "clBuildProgram">>,
              <<"clCreateKernel", "clCreateKernel">>,
              <<"clSetKernelArg 0 aMem", "clSetKernelArg a">>,
              <<"clSetKernelArg 1 bMem", "clSetKernelArg b">>,
              <<"clSetKernelArg 2 cMem", "clSetKernelArg c">>,
              <<"clSetKernelArg 3 s", "clSetKernelArg s">>,
              <<"clEnqueueNDRangeKernel", "clEnqueueNDRangeKernel">>,
              <<"clReleaseKernel", "none">>, <<"clReleaseProgram", "none">>>>],
     [fn |-> "add", elem |-> "unsigned short", generated |-> "add_uint16", typeName |-> "unsigned short",
      opOperator |-> "+", extracted |-> "add_uint16",   \* lines 380-421
      body |-> <<<<"checkAccess", "invalid Array access permissions">>,
              <<"getSize", "all Arrays must be the same size">>,
              <<"makeKernelFunction", "none">>,
              <<"clCreateProgramWithSource", "clCreateProgramWithSource">>,
              <<"clBuildProgram", "clBuildProgram">>,
              <<"clCreateKernel", "clCreateKernel">>,
              <<"clSetKernelArg 0 aMem", "clSetKernelArg a">>,
              <<"clSetKernelArg 1 bMem", "clSetKernelArg b">>,
              <<"clSetKernelArg 2 cMem", "clSetKernelArg c">>,
              <<"clSetKernelArg 3 s", "clSetKernelArg s">>,
              <<"clEnqueueNDRangeKernel", "clEnqueueNDRangeKernel">>,
              <<"clReleaseKernel", "none">>, <<"clReleaseProgram", "none">>>>],
     [fn |-> "add", elem |-> "unsigned int", generated |-> "add_uint32", typeName |-> "unsigned int",
      opOperator |-> "+", extracted |-> "add_uint32",   \* lines 423-464
      body |-> <<<<"checkAccess", "invalid Array access permissions">>,
              <<"getSize", "all Arrays must be the same size">>,
              <<"makeKernelFunction", "none">>,
              <<"clCreateProgramWithSource", "clCreateProgramWithSource">>,
              <<"clBuildProgram", "clBuildProgram">>,
              <<"clCreateKernel", "clCreateKernel">>,
              <<"clSetKernelArg 0 aMem", "clSetKernelArg a">>,
              <<"clSetKernelArg 1 bMem", "clSetKernelArg b">>,
              <<"clSetKernelArg 2 cMem", "clSetKernelArg c">>,
              <<"clSetKernelArg 3 s", "clSetKernelArg s">>,
              <<"clEnqueueNDRangeKernel", "clEnqueueNDRangeKernel">>,
              <<"clReleaseKernel", "none">>, <<"clReleaseProgram", "none">>>>],
     [fn |-> "add", elem |-> "unsigned long long int", generated |-> "add_uint64", typeName |-> "unsigned long long int",
      opOperator |-> "+", extracted |-> "add_uint64",   \* lines 466-507
      body |-> <<<<"checkAccess", "invalid Array access permissions">>,
              <<"getSize", "all Arrays must be the same size">>,
              <<"makeKernelFunction", "none">>,
              <<"clCreateProgramWithSource", "clCreateProgramWithSource">>,
              <<"clBuildProgram", "clBuildProgram">>,
              <<"clCreateKernel", "clCreateKernel">>,
              <<"clSetKernelArg 0 aMem", "clSetKernelArg a">>,
              <<"clSetKernelArg 1 bMem", "clSetKernelArg b">>,
              <<"clSetKernelArg 2 cMem", "clSetKernelArg c">>,
              <<"clSetKernelArg 3 s", "clSetKernelArg s">>,
              <<"clEnqueueNDRangeKernel", "clEnqueueNDRangeKernel">>,
              <<"clReleaseKernel", "none">>, <<"clReleaseProgram", "none">>>>],
     [fn |-> "add", elem |-> "float", generated |-> "add_float32", typeName |-> "float",
      opOperator |-> "+", extracted |-> "add_float32",   \* lines 509-550
      body |-> <<<<"checkAccess", "invalid Array access permissions">>,
              <<"getSize", "all Arrays must be the same size">>,
              <<"makeKernelFunction", "none">>,
              <<"clCreateProgramWithSource", "clCreateProgramWithSource">>,
              <<"clBuildProgram", "clBuildProgram">>,
              <<"clCreateKernel", "clCreateKernel">>,
              <<"clSetKernelArg 0 aMem", "clSetKernelArg a">>,
              <<"clSetKernelArg 1 bMem", "clSetKernelArg b">>,
              <<"clSetKernelArg 2 cMem", "clSetKernelArg c">>,
              <<"clSetKernelArg 3 s", "clSetKernelArg s">>,
              <<"clEnqueueNDRangeKernel", "clEnqueueNDRangeKernel">>,
              <<"clReleaseKernel", "none">>, <<"clReleaseProgram", "none">>>>],
     [fn |-> "add", elem |-> "double", generated |-> "add_float64", typeName |-> "double",
      opOperator |-> "+", extracted |-> "add_float64",   \* lines 552-593
      body |-> <<<<"checkAccess", "invalid Array access permissions">>,
              <<"getSize", "all Arrays must be the same size">>,
              <<"makeKernelFunction", "none">>,
              <<"clCreateProgramWithSource", "clCreateProgramWithSource">>,
              <<"clBuildProgram", "clBuildProgram">>,
              <<"clCreateKernel", "clCreateKernel">>,
              <<"clSetKernelArg 0 aMem", "clSetKernelArg a">>,
              <<"clSetKernelArg 1 bMem", "clSetKernelArg b">>,
              <<"clSetKernelArg 2 cMem", "clSetKernelArg c">>,
              <<"clSetKernelArg 3 s", "clSetKernelArg s">>,
              <<"clEnqueueNDRangeKernel", "clEnqueueNDRangeKernel">>,
              <<"clReleaseKernel", "none">>, <<"clReleaseProgram", "none">>>>],
     [fn |-> "sub", elem |-> "char", generated |-> "sub_int8", typeName |-> "char",
      opOperator |-> "-", extracted |-> "sub_int8",   \* lines 597-638
      body |-> <<<<"checkAccess", "invalid Array access permissions">>,
              <<"getSize", "all Arrays must be the same size">>,
              <<"makeKernelFunction", "none">>,
              <<"clCreateProgramWithSource", "clCreateProgramWithSource">>,
              <<"clBuildProgram", "clBuildProgram">>,
              <<"clCreateKernel", "clCreateKernel">>,
              <<"clSetKernelArg 0 aMem", "clSetKernelArg a">>,
              <<"clSetKernelArg 1 bMem", "clSetKernelArg b">>,
              <<"clSetKernelArg 2 cMem", "clSetKernelArg c">>,
              <<"clSetKernelArg 3 s", "clSetKernelArg s">>,
              <<"clEnqueueNDRangeKernel", "clEnqueueNDRangeKernel">>,
              <<"clReleaseKernel", "none">>, <<"clReleaseProgram", "none">>>>],
     [fn |-> "sub", elem |-> "short", generated |-> "sub_int16", typeName |-> "short",
      opOperator |-> "-", extracted |-> "sub_int16",   \* lines 640-681
      body |-> <<<<"checkAccess", "invalid Array access permissions">>,
              <<"getSize", "all Arrays must be the same size">>,
              <<"makeKernelFunction", "none">>,
              <<"clCreateProgramWithSource", "clCreateProgramWithSource">>,
              <<"clBuildProgram", "clBuildProgram">>,
              <<"clCreateKernel", "clCreateKernel">>,
              <<"clSetKernelArg 0 aMem", "clSetKernelArg a">>,
              <<"clSetKernelArg 1 bMem", "clSetKernelArg b">>,
              <<"clSetKernelArg 2 cMem", "clSetKernelArg c">>,
              <<"clSetKernelArg 3 s", "clSetKernelArg s">>,
              <<"clEnqueueNDRangeKernel", "clEnqueueNDRangeKernel">>,
              <<"clReleaseKernel", "none">>, <<"clReleaseProgram", "none">>>>],
     [fn |-> "sub", elem |-> "int", generated |-> "sub_int32", typeName |-> "int",
      opOperator |-> "-", extracted |-> "sub_int32",   \* lines 683-724
      body |-> <<<<"checkAccess", "invalid Array access permissions">>,
              <<"getSize", "all Arrays must be the same size">>,
              <<"makeKernelFunction", "none">>,
              <<"clCreateProgramWithSource", "clCreateProgramWithSource">>,
              <<"clBuildProgram", "clBuildProgram">>,
              <<"clCreateKernel", "clCreateKernel">>,
              <<"clSetKernelArg 0 aMem", "clSetKernelArg a">>,
              <<"clSetKernelArg 1 bMem", "clSetKernelArg b">>,
              <<"clSetKernelArg 2 cMem", "clSetKernelArg c">>,
              <<"clSetKernelArg 3 s", "clSetKernelArg s">>,
              <<"clEnqueueNDRangeKernel", "clEnqueueNDRangeKernel">>,
              <<"clReleaseKernel", "none">>, <<"clReleaseProgram", "none">>>>],
     [fn |-> "sub", elem |-> "long long int", generated |-> "sub_int64", typeName |-> "long long int",
      opOperator |-> "-", extracted |-> "sub_int64",   \* lines 726-767
      body |-> <<<<"checkAccess", "invalid Array access permissions">>,
              <<"getSize", "all Arrays must be the same size">>,
              <<"makeKernelFunction", "none">>,
              <<"clCreateProgramWithSource", "clCreateProgramWithSource">>,
              <<"clBuildProgram", "clBuildProgram">>,
              <<"clCreateKernel", "clCreateKernel">>,
              <<"clSetKernelArg 0 aMem", "clSetKernelArg a">>,
              <<"clSetKernelArg 1 bMem", "clSetKernelArg b">>,
              <<"clSetKernelArg 2 cMem", "clSetKernelArg c">>,
              <<"clSetKernelArg 3 s", "clSetKernelArg s">>,
              <<"clEnqueueNDRangeKernel", "clEnqueueNDRangeKernel">>,
              <<"clReleaseKernel", "none">>, <<"clReleaseProgram", "none">>>>],
     [fn |-> "sub", elem |-> "unsigned char", generated |-> "sub_uint8", typeName |-> "unsigned char",
      opOperator |-> "-", extracted |-> "sub_uint8",   \* lines 769-810
      body |-> <<<<"checkAccess", "invalid Array access permissions">>,
              <<"getSize", "all Arrays must be the same size">>,
              <<"makeKernelFunction", "none">>,
              <<"clCreateProgramWithSource", "clCreateProgramWithSource">>,
              <<"clBuildProgram", "clBuildProgram">>,
              <<"clCreateKernel", "clCreateKernel">>,
              <<"clSetKernelArg 0 aMem", "clSetKernelArg a">>,
              <<"clSetKernelArg 1 bMem", "clSetKernelArg b">>,
              <<"clSetKernelArg 2 cMem", "clSetKernelArg c">>,
              <<"clSetKernelArg 3 s", "clSetKernelArg s">>,
              <<"clEnqueueNDRangeKernel", "clEnqueueNDRangeKernel">>,
              <<"clReleaseKernel", "none">>, <<"clReleaseProgram", "none">>>>],
     [fn |-> "sub", elem |-> "unsigned short", generated |-> "sub_uint16", typeName |-> "unsigned short",
      opOperator |-> "-", extracted |-> "sub_uint16",   \* lines 812-853
      body |-> <<<<"checkAccess", "invalid Array access permissions">>,
              <<"getSize", "all Arrays must be the same size">>,
              <<"makeKernelFunction", "none">>,
              <<"clCreateProgramWithSource", "clCreateProgramWithSource">>,
              <<"clBuildProgram", "clBuildProgram">>,
              <<"clCreateKernel", "clCreateKernel">>,
              <<"clSetKernelArg 0 aMem", "clSetKernelArg a">>,
              <<"clSetKernelArg 1 bMem", "clSetKernelArg b">>,
              <<"clSetKernelArg 2 cMem", "clSetKernelArg c">>,
              <<"clSetKernelArg 3 s", "clSetKernelArg s">>,
              <<"clEnqueueNDRangeKernel", "clEnqueueNDRangeKernel">>,
              <<"clReleaseKernel", "none">>, <<"clReleaseProgram", "none">>>>],
     [fn |-> "sub", elem |-> "unsigned int", generated |-> "sub_uint32", typeName |-> "unsigned int",
      opOperator |-> "-", extracted |-> "sub_uint32",   \* lines 855-896
      body |-> <<<<"checkAccess", "invalid Array access permissions">>,
              <<"getSize", "all Arrays must be the same size">>,
              <<"makeKernelFunction", "none">>,
              <<"clCreateProgramWithSource", "clCreateProgramWithSource">>,
              <<"clBuildProgram", "clBuildProgram">>,
              <<"clCreateKernel", "clCreateKernel">>,
              <<"clSetKernelArg 0 aMem", "clSetKernelArg a">>,
              <<"clSetKernelArg 1 bMem", "clSetKernelArg b">>,
              <<"clSetKernelArg 2 cMem", "clSetKernelArg c">>,
              <<"clSetKernelArg 3 s", "clSetKernelArg s">>,
              <<"clEnqueueNDRangeKernel", "clEnqueueNDRangeKernel">>,
              <<"clReleaseKernel", "none">>, <<"clReleaseProgram", "none">>>>],
     [fn |-> "sub", elem |-> "unsigned long long int", generated |-> "sub_uint64", typeName |-> "unsigned long long int",
      opOperator |-> "-", extracted |-> "sub_uint64",   \* lines 898-939
      body |-> <<<<"checkAccess", "invalid Array access permissions">>,
              <<"getSize", "all Arrays must be the same size">>,
              <<"makeKernelFunction", "none">>,
              <<"clCreateProgramWithSource", "clCreateProgramWithSource">>,
              <<"clBuildProgram", "clBuildProgram">>,
              <<"clCreateKernel", "clCreateKernel">>,
              <<"clSetKernelArg 0 aMem", "clSetKernelArg a">>,
              <<"clSetKernelArg 1 bMem", "clSetKernelArg b">>,
              <<"clSetKernelArg 2 cMem", "clSetKernelArg c">>,
              <<"clSetKernelArg 3 s", "clSetKernelArg s">>,
              <<"clEnqueueNDRangeKernel", "clEnqueueNDRangeKernel">>,
              <<"clReleaseKernel", "none">>, <<"clReleaseProgram", "none">>>>],
     [fn |-> "sub", elem |-> "float", generated |-> "sub_float32", typeName |-> "float",
      opOperator |-> "-", extracted |-> "sub_float32",   \* lines 941-982
      body |-> <<<<"checkAccess", "invalid Array access permissions">>,
              <<"getSize", "all Arrays must be the same size">>,
              <<"makeKernelFunction", "none">>,
              <<"clCreateProgramWithSource", "clCreateProgramWithSource">>,
              <<"clBuildProgram", "clBuildProgram">>,
              <<"clCreateKernel", "clCreateKernel">>,
              <<"clSetKernelArg 0 aMem", "clSetKernelArg a">>,
              <<"clSetKernelArg 1 bMem", "clSetKernelArg b">>,
              <<"clSetKernelArg 2 cMem", "clSetKernelArg c">>,
              <<"clSetKernelArg 3 s", "clSetKernelArg s">>,
              <<"clEnqueueNDRangeKernel", "clEnqueueNDRangeKernel">>,
              <<"clReleaseKernel", "none">>, <<"clReleaseProgram", "none">>>>],
     [fn |-> "sub", elem |-> "double", generated |-> "sub_float64", typeName |-> "double",
      opOperator |-> "-", extracted |-> "sub_float64",   \* lines 984-1025
      body |-> <<<<"checkAccess", "invalid Array access permissions">>,
              <<"getSize", "all Arrays must be the same size">>,
              <<"makeKernelFunction", "none">>,
              <<"clCreateProgramWithSource", "clCreateProgramWithSource">>,
              <<"clBuildProgram", "clBuildProgram">>,
              <<"clCreateKernel", "clCreateKernel">>,
              <<"clSetKernelArg 0 aMem", "clSetKernelArg a">>,
              <<"clSetKernelArg 1 bMem", "clSetKernelArg b">>,
              <<"clSetKernelArg 2 cMem", "clSetKernelArg c">>,
              <<"clSetKernelArg 3 s", "clSetKernelArg s">>,
              <<"clEnqueueNDRangeKernel", "clEnqueueNDRangeKernel">>,
              <<"clReleaseKernel", "none">>, <<"clReleaseProgram", "none">>>>],
     [fn |-> "mul", elem |-> "char", generated |-> "mul_int8", typeName |-> "char",
      opOperator |-> "*", extracted |-> "mul_int8",   \* lines 1029-1070
      body |-> <<<<"checkAccess", "invalid Array access permissions">>,
              <<"getSize", "all Arrays must be the same size">>,
              <<"makeKernelFunction", "none">>,
              <<"clCreateProgramWithSource", "clCreateProgramWithSource">>,
              <<"clBuildProgram", "clBuildProgram">>,
              <<"clCreateKernel", "clCreateKernel">>,
              <<"clSetKernelArg 0 aMem", "clSetKernelArg a">>,
              <<"clSetKernelArg 1 bMem", "clSetKernelArg b">>,
              <<"clSetKernelArg 2 cMem", "clSetKernelArg c">>,
              <<"clSetKernelArg 3 s", "clSetKernelArg s">>,
              <<"clEnqueueNDRangeKernel", "clEnqueueNDRangeKernel">>,
              <<"clReleaseKernel", "none">>, <<"clReleaseProgram", "none">>>>],
     [fn |-> "mul", elem |-> "short", generated |-> "mul_int16", typeName |-> "short",
      opOperator |-> "*", extracted |-> "mul_int16",   \* lines 1072-1113
      body |-> <<<<"checkAccess", "invalid Array access permissions">>,
              <<"getSize", "all Arrays must be the same size">>,
              <<"makeKernelFunction", "none">>,
              <<"clCreateProgramWithSource", "clCreateProgramWithSource">>,
              <<"clBuildProgram", "clBuildProgram">>,
              <<"clCreateKernel", "clCreateKernel">>,
              <<"clSetKernelArg 0 aMem", "clSetKernelArg a">>,
              <<"clSetKernelArg 1 bMem", "clSetKernelArg b">>,
              <<"clSetKernelArg 2 cMem", "clSetKernelArg c">>,
              <<"clSetKernelArg 3 s", "clSetKernelArg s">>,
              <<"clEnqueueNDRangeKernel", "clEnqueueNDRangeKernel">>,
              <<"clReleaseKernel", "none">>, <<"clReleaseProgram", "none">>>>],
     [fn |-> "mul", elem |-> "int", generated |-> "mul_int32", typeName |-> "int",
      opOperator |-> "*", extracted |-> "mul_int32",   \* lines 1115-1156
      body |-> <<<<"checkAccess", "invalid Array access permissions">>,
              <<"getSize", "all Arrays must be the same size">>,
              <<"makeKernelFunction", "none">>,
              <<"clCreateProgramWithSource", "clCreateProgramWithSource">>,
              <<"clBuildProgram", "clBuildProgram">>,
              <<"clCreateKernel", "clCreateKernel">>,
              <<"clSetKernelArg 0 aMem", "clSetKernelArg a">>,
              <<"clSetKernelArg 1 bMem", "clSetKernelArg b">>,
              <<"clSetKernelArg 2 cMem", "clSetKernelArg c">>,
              <<"clSetKernelArg 3 s", "clSetKernelArg s">>,
              <<"clEnqueueNDRangeKernel", "clEnqueueNDRangeKernel">>,
              <<"clReleaseKernel", "none">>, <<"clReleaseProgram", "none">>>>],
     [fn |-> "mul", elem |-> "long long int", generated |-> "mul_int64", typeName |-> "long long int",
      opOperator |-> "*", extracted |-> "mul_int64",   \* lines 1158-1199
      body |-> <<<<"checkAccess", "invalid Array access permissions">>,
              <<"getSize", "all Arrays must be the same size">>,
              <<"makeKernelFunction", "none">>,
              <<"clCreateProgramWithSource", "clCreateProgramWithSource">>,
              <<"clBuildProgram", "clBuildProgram">>,
              <<"clCreateKernel", "clCreateKernel">>,
              <<"clSetKernelArg 0 aMem", "clSetKernelArg a">>,
              <<"clSetKernelArg 1 bMem", "clSetKernelArg b">>,
              <<"clSetKernelArg 2 cMem", "clSetKernelArg c">>,
              <<"clSetKernelArg 3 s", "clSetKernelArg s">>,
              <<"clEnqueueNDRangeKernel", "clEnqueueNDRangeKernel">>,
              <<"clReleaseKernel", "none">>, <<"clReleaseProgram", "none">>>>],
     [fn |-> "mul", elem |-> "unsigned char", generated |-> "mul_uint8", typeName |-> "unsigned char",
      opOperator |-> "*", extracted |-> "mul_uint8",   \* lines 1201-1242
      body |-> <<<<"checkAccess", "invalid Array access permissions">>,
              <<"getSize", "all Arrays must be the same size">>,
              <<"makeKernelFunction", "none">>,
              <<"clCreateProgramWithSource", "clCreateProgramWithSource">>,
              <<"clBuildProgram", "clBuildProgram">>,
              <<"clCreateKernel", "clCreateKernel">>,
              <<"clSetKernelArg 0 aMem", "clSetKernelArg a">>,
              <<"clSetKernelArg 1 bMem", "clSetKernelArg b">>,
              <<"clSetKernelArg 2 cMem", "clSetKernelArg c">>,
              <<"clSetKernelArg 3 s", "clSetKernelArg s">>,
              <<"clEnqueueNDRangeKernel", "clEnqueueNDRangeKernel">>,
              <<"clReleaseKernel", "none">>, <<"clReleaseProgram", "none">>>>],
     [fn |-> "mul", elem |-> "unsigned short", generated |-> "mul_uint16", typeName |-> "unsigned short",
      opOperator |-> "*", extracted |-> "mul_uint16",   \* lines 1244-1285
      body |-> <<<<"checkAccess", "invalid Array access permissions">>,
              <<"getSize", "all Arrays must be the same size">>,
              <<"makeKernelFunction", "none">>,
              <<"clCreateProgramWithSource", "clCreateProgramWithSource">>,
              <<"clBuildProgram", "clBuildProgram">>,
              <<"clCreateKernel", "clCreateKernel">>,
              <<"clSetKernelArg 0 aMem", "clSetKernelArg a">>,
              <<"clSetKernelArg 1 bMem", "clSetKernelArg b">>,
              <<"clSetKernelArg 2 cMem", "clSetKernelArg c">>,
              <<"clSetKernelArg 3 s", "clSetKernelArg s">>,
              <<"clEnqueueNDRangeKernel", "clEnqueueNDRangeKernel">>,
              <<"clReleaseKernel", "none">>, <<"clReleaseProgram", "none">>>>],
     [fn |-> "mul", elem |-> "unsigned int", generated |-> "mul_uint32", typeName |-> "unsigned int",
      opOperator |-> "*", extracted |-> "mul_uint32",   \* lines 1287-1328
      body |-> <<<<"checkAccess", "invalid Array access permissions">>,
              <<"getSize", "all Arrays must be the same size">>,
              <<"makeKernelFunction", "none">>,
              <<"clCreateProgramWithSource", "clCreateProgramWithSource">>,
              <<"clBuildProgram", "clBuildProgram">>,
              <<"clCreateKernel", "clCreateKernel">>,
              <<"clSetKernelArg 0 aMem", "clSetKernelArg a">>,
              <<"clSetKernelArg 1 bMem", "clSetKernelArg b">>,
              <<"clSetKernelArg 2 cMem", "clSetKernelArg c">>,
              <<"clSetKernelArg 3 s", "clSetKernelArg s">>,
              <<"clEnqueueNDRangeKernel", "clEnqueueNDRangeKernel">>,
              <<"clReleaseKernel", "none">>, <<"clReleaseProgram", "none">>>>],
     [fn |-> "mul", elem |-> "unsigned long long int", generated |-> "mul_uint64", typeName |-> "unsigned long long int",
      opOperator |-> "*", extracted |-> "mul_uint64",   \* lines 1330-1371
      body |-> <<<<"checkAccess", "invalid Array access permissions">>,
              <<"getSize", "all Arrays must be the same size">>,
              <<"makeKernelFunction", "none">>,
              <<"clCreateProgramWithSource", "clCreateProgramWithSource">>,
              <<"clBuildProgram", "clBuildProgram">>,
              <<"clCreateKernel", "clCreateKernel">>,
              <<"clSetKernelArg 0 aMem", "clSetKernelArg a">>,
              <<"clSetKernelArg 1 bMem", "clSetKernelArg b">>,
              <<"clSetKernelArg 2 cMem", "clSetKernelArg c">>,
              <<"clSetKernelArg 3 s", "clSetKernelArg s">>,
              <<"clEnqueueNDRangeKernel", "clEnqueueNDRangeKernel">>,
              <<"clReleaseKernel", "none">>, <<"clReleaseProgram", "none">>>>],
     [fn |-> "mul", elem |-> "float", generated |-> "mul_float32", typeName |-> "float",
      opOperator |-> "*", extracted |-> "mul_float32",   \* lines 1373-1414
      body |-> <<<<"checkAccess", "invalid Array access permissions">>,
              <<"getSize", "all Arrays must be the same size">>,
              <<"makeKernelFunction", "none">>,
              <<"clCreateProgramWithSource", "clCreateProgramWithSource">>,
              <<"clBuildProgram", "clBuildProgram">>,
              <<"clCreateKernel", "clCreateKernel">>,
              <<"clSetKernelArg 0 aMem", "clSetKernelArg a">>,
              <<"clSetKernelArg 1 bMem", "clSetKernelArg b">>,
              <<"clSetKernelArg 2 cMem", "clSetKernelArg c">>,
              <<"clSetKernelArg 3 s", "clSetKernelArg s">>,
              <<"clEnqueueNDRangeKernel", "clEnqueueNDRangeKernel">>,
              <<"clReleaseKernel", "none">>, <<"clReleaseProgram", "none">>>>],
     [fn |-> "mul", elem |-> "double", generated |-> "mul_float64", typeName |-> "double",
      opOperator |-> "*", extracted |-> "mul_float64",   \* lines 1416-1457
      body |-> <<<<"checkAccess", "invalid Array access permissions">>,
              <<"getSize", "all Arrays must be the same size">>,
              <<"makeKernelFunction", "none">>,
              <<"clCreateProgramWithSource", "clCreateProgramWithSource">>,
              <<"clBuildProgram", "clBuildProgram">>,
              <<"clCreateKernel", "clCreateKernel">>,
              <<"clSetKernelArg 0 aMem", "clSetKernelArg a">>,
              <<"clSetKernelArg 1 bMem", "clSetKernelArg b">>,
              <<"clSetKernelArg 2 cMem", "clSetKernelArg c">>,
              <<"clSetKernelArg 3 s", "clSetKernelArg s">>,
              <<"clEnqueueNDRangeKernel", "clEnqueueNDRangeKernel">>,
              <<"clReleaseKernel", "none">>, <<"clReleaseProgram", "none">>>>],
     [fn |-> "div", elem |-> "char", generated |-> "div_int8", typeName |-> "char",
      opOperator |-> "/", extracted |-> "div_int8",   \* lines 1461-1502
      body |-> <<<<"checkAccess", "invalid Array access permissions">>,
              <<"getSize", "all Arrays must be the same size">>,
              <<"makeKernelFunction", "none">>,
              <<"clCreateProgramWithSource", "clCreateProgramWithSource">>,
              <<"clBuildProgram", "clBuildProgram">>,
              <<"clCreateKernel", "clCreateKernel">>,
              <<"clSetKernelArg 0 aMem", "clSetKernelArg a">>,
              <<"clSetKernelArg 1 bMem", "clSetKernelArg b">>,
              <<"clSetKernelArg 2 cMem", "clSetKernelArg c">>,
              <<"clSetKernelArg 3 s", "clSetKernelArg s">>,
              <<"clEnqueueNDRangeKernel", "clEnqueueNDRangeKernel">>,
              <<"clReleaseKernel", "none">>, <<"clReleaseProgram", "none">>>>],
     [fn |-> "div", elem |-> "short", generated |-> "div_int16", typeName |-> "short",
      opOperator |-> "/", extracted |-> "div_int16",   \* lines 1504-1545
      body |-> <<<<"checkAccess", "invalid Array access permissions">>,
              <<"getSize", "all Arrays must be the same size">>,
              <<"makeKernelFunction", "none">>,
              <<"clCreateProgramWithSource", "clCreateProgramWithSource">>,
              <<"clBuildProgram", "clBuildProgram">>,
              <<"clCreateKernel", "clCreateKernel">>,
              <<"clSetKernelArg 0 aMem", "clSetKernelArg a">>,
              <<"clSetKernelArg 1 bMem", "clSetKernelArg b">>,
              <<"clSetKernelArg 2 cMem", "clSetKernelArg c">>,
              <<"clSetKernelArg 3 s", "clSetKernelArg s">>,
              <<"clEnqueueNDRangeKernel", "clEnqueueNDRangeKernel">>,
              <<"clReleaseKernel", "none">>, <<"clReleaseProgram", "none">>>>],
     [fn |-> "div", elem |-> "int", generated |-> "div_int32", typeName |-> "int",
      opOperator |-> "/", extracted |-> "div_int32",   \* lines 1547-1588
      body |-> <<<<"checkAccess", "invalid Array access permissions">>,
              <<"getSize", "all Arrays must be the same size">>,
              <<"makeKernelFunction", "none">>,
              <<"clCreateProgramWithSource", "clCreateProgramWithSource">>,
              <<"clBuildProgram", "clBuildProgram">>,
              <<"clCreateKernel", "clCreateKernel">>,
              <<"clSetKernelArg 0 aMem", "clSetKernelArg a">>,
              <<"clSetKernelArg 1 bMem", "clSetKernelArg b">>,
              <<"clSetKernelArg 2 cMem", "clSetKernelArg c">>,
              <<"clSetKernelArg 3 s", "clSetKernelArg s">>,
              <<"clEnqueueNDRangeKernel", "clEnqueueNDRangeKernel">>,
              <<"clReleaseKernel", "none">>, <<"clReleaseProgram", "none">>>>],
     [fn |-> "div", elem |-> "long long int", generated |-> "div_int64", typeName |-> "long long int",
      opOperator |-> "/", extracted |-> "div_int64",   \* lines 1590-1631
      body |-> <<<<"checkAccess", "invalid Array access permissions">>,
              <<"getSize", "all Arrays must be the same size">>,
              <<"makeKernelFunction", "none">>,
              <<"clCreateProgramWithSource", "clCreateProgramWithSource">>,
              <<"clBuildProgram", "clBuildProgram">>,
              <<"clCreateKernel", "clCreateKernel">>,
              <<"clSetKernelArg 0 aMem", "clSetKernelArg a">>,
              <<"clSetKernelArg 1 bMem", "clSetKernelArg b">>,
              <<"clSetKernelArg 2 cMem", "clSetKernelArg c">>,
              <<"clSetKernelArg 3 s", "clSetKernelArg s">>,
              <<"clEnqueueNDRangeKernel", "clEnqueueNDRangeKernel">>,
              <<"clReleaseKernel", "none">>, <<"clReleaseProgram", "none">>>>],
     [fn |-> "div", elem |-> "unsigned char", generated |-> "div_uint8", typeName |-> "unsigned char",
      opOperator |-> "/", extracted |-> "div_uint8",   \* lines 1633-1674
      body |-> <<<<"checkAccess", "invalid Array access permissions">>,
              <<"getSize", "all Arrays must be the same size">>,
              <<"makeKernelFunction", "none">>,
              <<"clCreateProgramWithSource", "clCreateProgramWithSource">>,
              <<"clBuildProgram", "clBuildProgram">>,
              <<"clCreateKernel", "clCreateKernel">>,
              <<"clSetKernelArg 0 aMem", "clSetKernelArg a">>,
              <<"clSetKernelArg 1 bMem", "clSetKernelArg b">>,
              <<"clSetKernelArg 2 cMem", "clSetKernelArg c">>,
              <<"clSetKernelArg 3 s", "clSetKernelArg s">>,
              <<"clEnqueueNDRangeKernel", "clEnqueueNDRangeKernel">>,
              <<"clReleaseKernel", "none">>, <<"clReleaseProgram", "none">>>>],
     [fn |-> "div", elem |-> "unsigned short", generated |-> "div_uint16", typeName |-> "unsigned short",
      opOperator |-> "/", extracted |-> "div_uint16",   \* lines 1676-1717
      body |-> <<<<"checkAccess", "invalid Array access permissions">>,
              <<"getSize", "all Arrays must be the same size">>,
              <<"makeKernelFunction", "none">>,
              <<"clCreateProgramWithSource", "clCreateProgramWithSource">>,
              <<"clBuildProgram", "clBuildProgram">>,
              <<"clCreateKernel", "clCreateKernel">>,
              <<"clSetKernelArg 0 aMem", "clSetKernelArg a">>,
              <<"clSetKernelArg 1 bMem", "clSetKernelArg b">>,
              <<"clSetKernelArg 2 cMem", "clSetKernelArg c">>,
              <<"clSetKernelArg 3 s", "clSetKernelArg s">>,
              <<"clEnqueueNDRangeKernel", "clEnqueueNDRangeKernel">>,
              <<"clReleaseKernel", "none">>, <<"clReleaseProgram", "none">>>>],
     [fn |-> "div", elem |-> "unsigned int", generated |-> "div_uint32", typeName |-> "unsigned int",
      opOperator |-> "/", extracted |-> "div_uint32",   \* lines 1719-1760
      body |-> <<<<"checkAccess", "invalid Array access permissions">>,
              <<"getSize", "all Arrays must be the same size">>,
              <<"makeKernelFunction", "none">>,
              <<"clCreateProgramWithSource", "clCreateProgramWithSource">>,
              <<"clBuildProgram", "clBuildProgram">>,
              <<"clCreateKernel", "clCreateKernel">>,
              <<"clSetKernelArg 0 aMem", "clSetKernelArg a">>,
              <<"clSetKernelArg 1 bMem", "clSetKernelArg b">>,
              <<"clSetKernelArg 2 cMem", "clSetKernelArg c">>,
              <<"clSetKernelArg 3 s", "clSetKernelArg s">>,
              <<"clEnqueueNDRangeKernel", "clEnqueueNDRangeKernel">>,
              <<"clReleaseKernel", "none">>, <<"clReleaseProgram", "none">>>>],
     [fn |-> "div", elem |-> "unsigned long long int", generated |-> "div_uint64", typeName |-> "unsigned long long int",
      opOperator |-> "/", extracted |-> "div_uint64",   \* lines 1762-1803
      body |-> <<<<"checkAccess", "invalid Array access permissions">>,
              <<"getSize", "all Arrays must be the same size">>,
              <<"makeKernelFunction", "none">>,
              <<"clCreateProgramWithSource", "clCreateProgramWithSource">>,
              <<"clBuildProgram", "clBuildProgram">>,
              <<"clCreateKernel", "clCreateKernel">>,
              <<"clSetKernelArg 0 aMem", "clSetKernelArg a">>,
              <<"clSetKernelArg 1 bMem", "clSetKernelArg b">>,
              <<"clSetKernelArg 2 cMem", "clSetKernelArg c">>,
              <<"clSetKernelArg 3 s", "clSetKernelArg s">>,
              <<"clEnqueueNDRangeKernel", "clEnqueueNDRangeKernel">>,
              <<"clReleaseKernel", "none">>, <<"clReleaseProgram", "none">>>>],
     [fn |-> "div", elem |-> "float", generated |-> "div_float32", typeName |-> "float",
      opOperator |-> "/", extracted |-> "div_float32",   \* lines 1805-1846
      body |-> <<<<"checkAccess", "invalid Array access permissions">>,
              <<"getSize", "all Arrays must be the same size">>,
              <<"makeKernelFunction", "none">>,
              <<"clCreateProgramWithSource", "clCreateProgramWithSource">>,
              <<"clBuildProgram", "clBuildProgram">>,
              <<"clCreateKernel", "clCreateKernel">>,
              <<"clSetKernelArg 0 aMem", "clSetKernelArg a">>,
              <<"clSetKernelArg 1 bMem", "clSetKernelArg b">>,
              <<"clSetKernelArg 2 cMem", "clSetKernelArg c">>,
              <<"clSetKernelArg 3 s", "clSetKernelArg s">>,
              <<"clEnqueueNDRangeKernel", "clEnqueueNDRangeKernel">>,
              <<"clReleaseKernel", "none">>, <<"clReleaseProgram", "none">>>>],
     [fn |-> "div", elem |-> "double", generated |-> "div_float64", typeName |-> "double",
      opOperator |-> "/", extracted |-> "div_float64",   \* lines 1848-1889
      body |-> <<<<"checkAccess", "invalid Array access permissions">>,
              <<"getSize", "all Arrays must be the same size">>,
              <<"makeKernelFunction", "none">>,
              <<"clCreateProgramWithSource", "clCreateProgramWithSource">>,
              <<"clBuildProgram", "clBuildProgram">>,
              <<"clCreateKernel", "clCreateKernel">>,
              <<"clSetKernelArg 0 aMem", "clSetKernelArg a">>,
              <<"clSetKernelArg 1 bMem", "clSetKernelArg b">>,
              <<"clSetKernelArg 2 cMem", "clSetKernelArg c">>,
              <<"clSetKernelArg 3 s", "clSetKernelArg s">>,
              <<"clEnqueueNDRangeKernel", "clEnqueueNDRangeKernel">>,
              <<"clReleaseKernel", "none">>, <<"clReleaseProgram", "none">>>>]
    }

Overload(fn, elem) == CHOOSE o \in Overloads : o.fn = fn /\ o.elem = elem

ElemTypes == {o.elem : o \in Overloads}

\* The element type of the buffers of the model: Array<unsigned char>.
ElementType == "unsigned char"

\* What the overload of fn for ElementType passes to makeKernelFunction and
\* to clCreateKernel.
GeneratedName(fn) == Overload(fn, ElementType).generated
TypeName(fn) == Overload(fn, ElementType).typeName
OpOperator(fn) == Overload(fn, ElementType).opOperator
KernelName(fn) == Overload(fn, ElementType).extracted

\* Mutant: the body of div for double omits the size check.
OverloadBodySkipsSizeCheck(fn, elem) ==
    LET body == Overload(fn, elem).body IN
    IF fn = "div" /\ elem = "double"
    THEN SelectSeq(body, LAMBDA step : step[1] # "getSize")
    ELSE body

\* The steps of the overload of fn for the element type elem.
OverloadBody(fn, elem) == Overload(fn, elem).body

\* The width and kind of a C++ element type on the host (LP64).
HostType(elem) ==
    CASE elem = "char" -> "int8"
      [] elem = "short" -> "int16"
      [] elem = "int" -> "int32"
      [] elem = "long long int" -> "int64"
      [] elem = "unsigned char" -> "uint8"
      [] elem = "unsigned short" -> "uint16"
      [] elem = "unsigned int" -> "uint32"
      [] elem = "unsigned long long int" -> "uint64"
      [] elem = "float" -> "float32"
      [] elem = "double" -> "float64"

\* The width and kind of the type a name denotes in the kernel language.
\* OpenCL C has no 64-bit type called long long: its 64-bit integers are long
\* and unsigned long, and long long and unsigned long long are reserved.
DeviceType(typeName) ==
    CASE typeName = "char" -> "int8"
      [] typeName = "short" -> "int16"
      [] typeName = "int" -> "int32"
      [] typeName = "long" -> "int64"
      [] typeName = "unsigned char" -> "uint8"
      [] typeName = "unsigned short" -> "uint16"
      [] typeName = "unsigned int" -> "uint32"
      [] typeName = "unsigned long" -> "uint64"
      [] typeName = "float" -> "float32"
      [] typeName = "double" -> "float64"
      [] OTHER -> "reserved"

\* makeKernelFunction: the source text, by its three variable points.
makeKernelFunction(name, typeName, opOperator) ==
    [name |-> name, typeName |-> typeName, opOperator |-> opOperator]

\* What kernString points at when clCreateProgramWithSource reads it.  The
\* function returns c_str() of a temporary std::string that is destroyed at
\* the return, so the bytes read are those of freed storage: the text still
\* intact, bytes that do not compile, or bytes that compile to a program
\* without the kernel.
SourceOutcomes == {"intact", "uncompilable", "nokernel"}

\* a <opOperator> b in the element type; zdiv is the (unspecified) value of
\* an integer division by zero on the device.
ApplyOp(opOperator, x, y, zdiv) ==
    CASE opOperator = "+" -> (x + y) % ElemMod
      [] opOperator = "-" -> (x - y) % ElemMod
      [] opOperator = "*" -> (x * y) % ElemMod
      [] opOperator = "/" -> IF y = 0 THEN zdiv ELSE x \div y

\* int gid = get_global_id(0): the conversion of a size_t to int wraps.
ToInt(g) ==
    LET m == g % (2 ^ IntBits) IN
    IF m >= 2 ^ (IntBits - 1) THEN m - 2 ^ IntBits ELSE m

\* gid < s with gid an int and s a ulong: gid is converted to ulong.
ToUlong(i) == i % (2 ^ UlongBits)

Guard(gid, s) == ToUlong(gid) < s

\* Mutant: the work item stores the result in a as well.
WorkItemWritesInput(m, cmd, g, zdiv) ==
    LET gid == ToInt(g)
        r == ApplyOp(cmd.opOperator, m[cmd.a].content[gid + 1],
                     m[cmd.b].content[gid + 1], zdiv)
    IN IF Guard(gid, cmd.s)
       THEN [[m EXCEPT ![cmd.c].content[gid + 1] = r]
                EXCEPT ![cmd.a].content[gid + 1] = r]
       ELSE m

\* One work item: if (gid < s) c[gid] = a[gid] op b[gid];
WorkItem(m, cmd, g, zdiv) ==
    LET gid == ToInt(g) IN
    IF Guard(gid, cmd.s)
    THEN [m EXCEPT ![cmd.c].content[gid + 1] =
             ApplyOp(cmd.opOperator, m[cmd.a].content[gid + 1],
                     m[cmd.b].content[gid + 1], zdiv)]
    ELSE m

\* The work items 0..gws-1 of one launch (they touch disjoint elements while
\* gws <= 2^IntBits, so their order does not matter).
RECURSIVE RunKernel(_, _, _, _)
RunKernel(m, cmd, g, zdiv) ==
    IF g >= cmd.gws THEN m
    ELSE RunKernel(WorkItem(m, cmd, g, zdiv), cmd, g + 1, zdiv)

\* ---------------------------------------------------------------- dispatch
PermissionError == "invalid Array access permissions"
ShapeError == "all Arrays must be the same size"

\* The checkErr names of the primitives of a dispatch, in program order.
Steps ==
    <<"clCreateProgramWithSource", "clBuildProgram", "clCreateKernel",
      "clSetKernelArg a", "clSetKernelArg b", "clSetKernelArg c",
      "clSetKernelArg s", "clEnqueueNDRangeKernel">>

DispatchFaults == {"none"} \cup {Steps[i] : i \in 1..Len(Steps)}

\* A buffer argument the platform accepts: null, or a live cl_mem.
MemArgOK(h) == h = NULL \/ MemLive(h)

\* Mutant: a build failure is remembered, and the build of a program of the
\* same kernel fails from then on.
StepFailsRemembersBuild(i, d, a, b, c, fault, bytes, name, source) ==
    \/ fault = Steps[i]
    \/ i = 2 /\ \E p \in 1..Len(prog) : ~prog[p].built /\ prog[p].src.name = name
    \/ CASE i = 1 -> ~ContextLive(dev[d].context)
         [] i = 2 -> bytes = "uncompilable" \/ dev[d].device # TheDevice
         [] i = 3 -> bytes = "nokernel" \/ name # source.name
         [] i = 4 -> ~MemArgOK(arr[a].data)
         [] i = 5 -> ~MemArgOK(arr[b].data)
         [] i = 6 -> ~MemArgOK(arr[c].data)
         [] i = 7 -> FALSE
         [] i = 8 -> \/ ~QueueLive(dev[d].queue)
                     \/ queueCtx[dev[d].queue] # dev[d].context
                     \/ \E h \in {arr[a].data, arr[b].data, arr[c].data} :
                           h # NULL /\ mem[h].ctx # dev[d].context

\* Mutant: program creation does not look at the context handle.
StepFailsAcceptsNullContext(i, d, a, b, c, fault, bytes, name, source) ==
    \/ fault = Steps[i]
    \/ CASE i = 1 -> FALSE
         [] i = 2 -> bytes = "uncompilable" \/ dev[d].device # TheDevice
         [] i = 3 -> bytes = "nokernel" \/ name # source.name
         [] i = 4 -> ~MemArgOK(arr[a].data)
         [] i = 5 -> ~MemArgOK(arr[b].data)
         [] i = 6 -> ~MemArgOK(arr[c].data)
         [] i = 7 -> FALSE
         [] i = 8 -> \/ ~QueueLive(dev[d].queue)
                     \/ queueCtx[dev[d].queue] # dev[d].context
                     \/ \E h \in {arr[a].data, arr[b].data, arr[c].data} :
                           h # NULL /\ mem[h].ctx # dev[d].context

\* Whether primitive number i of a dispatch returns an error: the platform
\* fails it (fault), or its arguments are invalid.
StepFails(i, d, a, b, c, fault, bytes, name, source) ==
    \/ fault = Steps[i]
    \/ CASE i = 1 -> ~ContextLive(dev[d].context)
         [] i = 2 -> bytes = "uncompilable" \/ dev[d].device # TheDevice
         [] i = 3 -> bytes = "nokernel" \/ name # source.name
         [] i = 4 -> ~MemArgOK(arr[a].data)
         [] i = 5 -> ~MemArgOK(arr[b].data)
         [] i = 6 -> ~MemArgOK(arr[c].data)
         [] i = 7 -> FALSE
         [] i = 8 -> \/ ~QueueLive(dev[d].queue)
                     \/ queueCtx[dev[d].queue] # dev[d].context
                     \/ \E h \in {arr[a].data, arr[b].data, arr[c].data} :
                           h # NULL /\ mem[h].ctx # dev[d].context

\* Mutant: the error codes of the four bindings are not examined.
FirstFailureIgnoresBinding(d, a, b, c, fault, bytes, name, source) ==
    LET bad == {i \in 1..Len(Steps) \ (4..7) :
                   StepFails(i, d, a, b, c, fault, bytes, name, source)}
    IN IF bad = {} THEN Len(Steps) + 1
       ELSE CHOOSE i \in bad : \A j \in bad : i <= j

\* The first primitive that fails, Len(Steps) + 1 when none does.
FirstFailure(d, a, b, c, fault, bytes, name, source) ==
    LET bad == {i \in 1..Len(Steps) : StepFails(i, d, a, b, c, fault, bytes, name, source)}
    IN IF bad = {} THEN Len(Steps) + 1
       ELSE CHOOSE i \in bad : \A j \in bad : i <= j

\* Mutant: argument 0 is bound to b and argument 1 to a.
DispatchCallsSwapsInputs(d, a, b, c, p, k) ==
    <<Call("clCreateProgramWithSource", dev[d].context, p),
      Call("clBuildProgram", p, dev[d].device),
      Call("clCreateKernel", p, k),
      Call("clSetKernelArg", 0, arr[b].data),
      Call("clSetKernelArg", 1, arr[a].data),
      Call("clSetKernelArg", 2, arr[c].data),
      Call("clSetKernelArg", 3, arr[c].size),
      Call("clEnqueueNDRangeKernel", dev[d].queue, arr[c].size),
      Call("clReleaseKernel", k, NULL),
      Call("clReleaseProgram", p, NULL)>>

\* The primitives of a dispatch in program order, with their arguments.
DispatchCalls(d, a, b, c, p, k) ==
    <<Call("clCreateProgramWithSource", dev[d].context, p),
      Call("clBuildProgram", p, dev[d].device),
      Call("clCreateKernel", p, k),
      Call("clSetKernelArg", 0, arr[a].data),
      Call("clSetKernelArg", 1, arr[b].data),
      Call("clSetKernelArg", 2, arr[c].data),
      Call("clSetKernelArg", 3, arr[c].size),
      Call("clEnqueueNDRangeKernel", dev[d].queue, arr[c].size),
      Call("clReleaseKernel", k, NULL),
      Call("clReleaseProgram", p, NULL)>>

\* Mutant: the grid is rounded up to an even number of work items.
LaunchRoundsUpGrid(d, fn, a, b, c, bytes, ff) ==
    LET ok == ff > Len(Steps)
        p == Len(prog) + 1
        k == Len(kern) + 1
        source == makeKernelFunction(GeneratedName(fn), TypeName(fn), OpOperator(fn))
        q == dev[d].queue
        cmd == [kind |-> "kernel", fn |-> fn, kernel |-> k,
                opOperator |-> source.opOperator,
                a |-> arr[a].data, b |-> arr[b].data, c |-> arr[c].data,
                s |-> arr[c].size, gws |-> arr[c].size + (arr[c].size % 2)]
    IN
    /\ prog' = IF ff > 1
               THEN Append(prog, [ctx |-> dev[d].context, src |-> source,
                                  bytes |-> bytes, built |-> ff > 2,
                                  rel |-> IF ok THEN 1 ELSE 0])
               ELSE prog
    /\ kern' = IF ff > 3
               THEN Append(kern, [prog |-> p, name |-> KernelName(fn),
                                  rel |-> IF ok THEN 1 ELSE 0])
               ELSE kern
    /\ cmds' = IF ok THEN [cmds EXCEPT ![q] = Append(@, cmd)] ELSE cmds
    /\ launches' = IF ok THEN Append(launches, cmd) ELSE launches
    /\ last' = Result(fn, <<d, a, b, c>>,
                      IF ok THEN NoErr ELSE checkErr(TRUE, Steps[ff]),
                      SubSeq(DispatchCalls(d, a, b, c,
                                           IF ff > 1 THEN p ELSE NULL,
                                           IF ff > 3 THEN k ELSE NULL),
                             1, IF ok THEN Len(Steps) + 2 ELSE ff))

\* Mutant: the kernel is released twice after the enqueue.
LaunchReleasesKernelTwice(d, fn, a, b, c, bytes, ff) ==
    LET ok == ff > Len(Steps)
        p == Len(prog) + 1
        k == Len(kern) + 1
        source == makeKernelFunction(GeneratedName(fn), TypeName(fn), OpOperator(fn))
        q == dev[d].queue
        cmd == [kind |-> "kernel", fn |-> fn, kernel |-> k,
                opOperator |-> source.opOperator,
                a |-> arr[a].data, b |-> arr[b].data, c |-> arr[c].data,
                s |-> arr[c].size, gws |-> arr[c].size]
    IN
    /\ prog' = IF ff > 1
               THEN Append(prog, [ctx |-> dev[d].context, src |-> source,
                                  bytes |-> bytes, built |-> ff > 2,
                                  rel |-> IF ok THEN 1 ELSE 0])
               ELSE prog
    /\ kern' = IF ff > 3
               THEN Append(kern, [prog |-> p, name |-> KernelName(fn),
                                  rel |-> IF ok THEN 2 ELSE 0])
               ELSE kern
    /\ cmds' = IF ok THEN [cmds EXCEPT ![q] = Append(@, cmd)] ELSE cmds
    /\ launches' = IF ok THEN Append(launches, cmd) ELSE launches
    /\ last' = Result(fn, <<d, a, b, c>>,
                      IF ok THEN NoErr ELSE checkErr(TRUE, Steps[ff]),
                      SubSeq(DispatchCalls(d, a, b, c,
                                           IF ff > 1 THEN p ELSE NULL,
                                           IF ff > 3 THEN k ELSE NULL),
                             1, IF ok THEN Len(Steps) + 2 ELSE ff))

\* The body of Device::add/sub/mul/div after the two checks: ff is the first
\* failing primitive; checkErr throws there, so nothing after it runs.
Launch(d, fn, a, b, c, bytes, ff) ==
    LET ok == ff > Len(Steps)
        p == Len(prog) + 1
        k == Len(kern) + 1
        source == makeKernelFunction(GeneratedName(fn), TypeName(fn), OpOperator(fn))
        q == dev[d].queue
        cmd == [kind |-> "kernel", fn |-> fn, kernel |-> k,
                opOperator |-> source.opOperator,
                a |-> arr[a].data, b |-> arr[b].data, c |-> arr[c].data,
                s |-> arr[c].size, gws |-> arr[c].size]
    IN
    /\ prog' = IF ff > 1
               THEN Append(prog, [ctx |-> dev[d].context, src |-> source,
                                  bytes |-> bytes, built |-> ff > 2,
                                  rel |-> IF ok THEN 1 ELSE 0])
               ELSE prog
    /\ kern' = IF ff > 3
               THEN Append(kern, [prog |-> p, name |-> KernelName(fn),
                                  rel |-> IF ok THEN 1 ELSE 0])
               ELSE kern
    /\ cmds' = IF ok THEN [cmds EXCEPT ![q] = Append(@, cmd)] ELSE cmds
    /\ launches' = IF ok THEN Append(launches, cmd) ELSE launches
    /\ last' = Result(fn, <<d, a, b, c>>,
                      IF ok THEN NoErr ELSE checkErr(TRUE, Steps[ff]),
                      SubSeq(DispatchCalls(d, a, b, c,
                                           IF ff > 1 THEN p ELSE NULL,
                                           IF ff > 3 THEN k ELSE NULL),
                             1, IF ok THEN Len(Steps) + 2 ELSE ff))

\* Mutant: the size check compares a with c only.
SizeMismatchIgnoresB(a, b, c) == a.size # c.size

\* The condition of the size check of a dispatch.
SizeMismatch(a, b, c) == (a.size # c.size) \/ (b.size # c.size)

\* Whether a dispatch gets as far as the platform (the platform's outcome is
\* only drawn for those that do).
PassesChecks(a, b, c) ==
    /\ checkAccess(arr[a], READ) /\ checkAccess(arr[b], READ)
    /\ checkAccess(arr[c], WRITE)
    /\ ~SizeMismatch(arr[a], arr[b], arr[c])

\* Mutant: the size check comes before the access check.
DispatchSizeCheckFirst(d, fn, a, b, c, fault, bytes) ==
    /\ hostpc = "idle"
    /\ dev[d].st = "object"
    /\ arr[a].st = "object" /\ arr[b].st = "object" /\ arr[c].st = "object"
    /\ fn \in Fns
    /\ fault \in DispatchFaults
    /\ bytes \in SourceOutcomes
    /\ PassesChecks(a, b, c) \/ (fault = "none" /\ bytes = "intact")
    /\ IF SizeMismatch(arr[a], arr[b], arr[c])
       THEN /\ last' = Result(fn, <<d, a, b, c>>, ShapeError, <<>>)
            /\ UNCHANGED <<prog, kern, cmds, launches>>
       ELSE IF ~checkAccess(arr[a], READ) \/ ~checkAccess(arr[b], READ)
          \/ ~checkAccess(arr[c], WRITE)
       THEN /\ last' = Result(fn, <<d, a, b, c>>, PermissionError, <<>>)
            /\ UNCHANGED <<prog, kern, cmds, launches>>
       ELSE Launch(d, fn, a, b, c, bytes,
                   FirstFailure(d, a, b, c, fault, bytes, KernelName(fn),
                                makeKernelFunction(GeneratedName(fn), TypeName(fn),
                                                   OpOperator(fn))))
    /\ UNCHANGED <<dev, arr, sessionVars, mem, hostpc>>

\* Mutant: the program is created before the sizes are compared, and is left
\* behind when they differ.
DispatchCreatesProgramFirst(d, fn, a, b, c, fault, bytes) ==
    /\ hostpc = "idle"
    /\ dev[d].st = "object"
    /\ arr[a].st = "object" /\ arr[b].st = "object" /\ arr[c].st = "object"
    /\ fn \in Fns
    /\ fault \in DispatchFaults
    /\ bytes \in SourceOutcomes
    /\ PassesChecks(a, b, c) \/ (fault = "none" /\ bytes = "intact")
    /\ IF ~checkAccess(arr[a], READ) \/ ~checkAccess(arr[b], READ)
          \/ ~checkAccess(arr[c], WRITE)
       THEN /\ last' = Result(fn, <<d, a, b, c>>, PermissionError, <<>>)
            /\ UNCHANGED <<prog, kern, cmds, launches>>
       ELSE IF SizeMismatch(arr[a], arr[b], arr[c])
       THEN /\ last' = Result(fn, <<d, a, b, c>>, ShapeError, <<>>)
            /\ prog' = Append(prog, [ctx |-> dev[d].context,
                                     src |-> makeKernelFunction(GeneratedName(fn),
                                                                TypeName(fn),
                                                                OpOperator(fn)),
                                     bytes |-> bytes, built |-> FALSE, rel |-> 0])
            /\ UNCHANGED <<kern, cmds, launches>>
       ELSE Launch(d, fn, a, b, c, bytes,
                   FirstFailure(d, a, b, c, fault, bytes, KernelName(fn),
                                makeKernelFunction(GeneratedName(fn), TypeName(fn),
                                                   OpOperator(fn))))
    /\ UNCHANGED <<dev, arr, sessionVars, mem, hostpc>>

\* void add/sub/mul/div(Array<T>& a, Array<T>& b, Array<T>& c): the forty
\* overloads have this one body.
Dispatch(d, fn, a, b, c, fault, bytes) ==
    /\ hostpc = "idle"
    /\ dev[d].st = "object"
    /\ arr[a].st = "object" /\ arr[b].st = "object" /\ arr[c].st = "object"
    /\ fn \in Fns
    /\ fault \in DispatchFaults
    /\ bytes \in SourceOutcomes
    /\ PassesChecks(a, b, c) \/ (fault = "none" /\ bytes = "intact")
    /\ IF ~checkAccess(arr[a], READ) \/ ~checkAccess(arr[b], READ)
          \/ ~checkAccess(arr[c], WRITE)
       THEN /\ last' = Result(fn, <<d, a, b, c>>, PermissionError, <<>>)
            /\ UNCHANGED <<prog, kern, cmds, launches>>
       ELSE IF SizeMismatch(arr[a], arr[b], arr[c])
       THEN /\ last' = Result(fn, <<d, a, b, c>>, ShapeError, <<>>)
            /\ UNCHANGED <<prog, kern, cmds, launches>>
       ELSE Launch(d, fn, a, b, c, bytes,
                   FirstFailure(d, a, b, c, fault, bytes, KernelName(fn),
                                makeKernelFunction(GeneratedName(fn), TypeName(fn),
                                                   OpOperator(fn))))
    /\ UNCHANGED <<dev, arr, sessionVars, mem, hostpc>>

\* -------------------------------------------------------------------- read
SizeError == "read target array size mismatch"

\* read(std::vector<T>&), read(std::array<T,S>&), read(T*, size_t)
ReadForms == {"vector", "array", "pointer"}

ReadFaults == {"none", "clEnqueueReadBuffer"}

\* device.getQueue() through the Array's Device&: the member of the object,
\* or whatever is at its address once the object is gone.
QueueOf(x, stale) ==
    IF dev[arr[x].device].st = "object" THEN dev[arr[x].device].queue ELSE stale

\* Whether clEnqueueReadBuffer(queue, data, CL_TRUE, 0, bytes, ...) fails.
ReadFails(q, h, n, fault) ==
    \/ fault = "clEnqueueReadBuffer"
    \/ ~QueueLive(q)
    \/ ~MemLive(h)
    \/ n = 0
    \/ mem[h].ctx # queueCtx[q]

\* Array<T>::read into a target of cap elements: the vector form replaces
\* its target by a vector of _size elements, the other two compare the
\* target's size with _size first; then a blocking read is enqueued, and the
\* call returns when the device has performed it.
ReadCall(x, form, cap, fault, stale) ==
    /\ hostpc = "idle"
    /\ arr[x].st = "object"
    /\ form \in ReadForms
    /\ fault \in ReadFaults
    /\ dev[arr[x].device].st = "object" => stale = NULL
    /\ LET n == IF form = "vector" THEN arr[x].size ELSE cap
           q == QueueOf(x, stale)
           h == arr[x].data
           cmd == [kind |-> "read", fn |-> form, kernel |-> NULL,
                   opOperator |-> "", a |-> NULL, b |-> NULL, c |-> h,
                   s |-> arr[x].size, gws |-> 0]
       IN
       IF n # arr[x].size
       THEN /\ last' = [Result(form, <<x, cap>>, SizeError, <<>>)
                           EXCEPT !.out = Zeros(n)]
            /\ UNCHANGED <<cmds, hostpc>>
       ELSE IF ReadFails(q, h, arr[x].size, fault)
       THEN /\ last' = [Result(form, <<x, cap>>, checkErr(TRUE, "clEnqueueReadBuffer"),
                               <<Call("clEnqueueReadBuffer", q, h)>>)
                           EXCEPT !.out = Zeros(n)]
            /\ UNCHANGED <<cmds, hostpc>>
       ELSE /\ last' = [Result(form, <<x, cap>>, NoErr,
                               <<Call("clEnqueueReadBuffer", q, h)>>)
                           EXCEPT !.out = Zeros(n)]
            /\ cmds' = [cmds EXCEPT ![q] = Append(@, cmd)]
            /\ hostpc' = "reading"
    /\ UNCHANGED <<dev, arr, sessionVars, mem, prog, kern, launches>>

\* -------------------------------------------------------------- the device
\* The platform counts the references to a kernel: one from its creation,
\* one for every enqueued launch of it that has not been executed, less the
\* releases; a kernel holds a reference to its program.  An object is
\* destroyed when its count reaches zero.
PendingUses(k) ==
    Cardinality({qi \in CtxIds \X (1..(MaxRepeat + 1)) :
                    /\ qi[2] <= Len(cmds[qi[1]])
                    /\ cmds[qi[1]][qi[2]].kind = "kernel"
                    /\ cmds[qi[1]][qi[2]].kernel = k})

KernelDestroyed(k) == 1 + PendingUses(k) - kern[k].rel <= 0

ProgramDestroyed(p) ==
    LET kernels == {k \in 1..Len(kern) : kern[k].prog = p /\ ~KernelDestroyed(k)}
    IN 1 + Cardinality(kernels) - prog[p].rel <= 0

\* Whether some work item of the launch divides by zero (the value it then
\* stores is the only thing the device is free to choose).  A launch on
\* moved-from buffers (null handles, size 0) has no work item.
DividesByZero(cmd) ==
    /\ cmd.opOperator = "/"
    /\ cmd.gws > 0
    /\ \E i \in 1..Len(mem[cmd.b].content) : mem[cmd.b].content[i] = 0

\* Mutant: the device performs a read without letting the caller return.
DeviceStepKeepsCallerBlocked(q, zdiv) ==
    /\ cmds[q] # <<>>
    /\ zdiv \in Elem
    /\ LET cmd == Head(cmds[q]) IN
       IF cmd.kind = "kernel"
       THEN /\ zdiv = 0 \/ DividesByZero(cmd)
            /\ mem' = RunKernel(mem, cmd, 0, zdiv)
            /\ UNCHANGED <<last, hostpc>>
       ELSE /\ zdiv = 0
            /\ last' = [last EXCEPT !.out = mem[cmd.c].content]
            /\ UNCHANGED <<mem, hostpc>>
    /\ cmds' = [cmds EXCEPT ![q] = Tail(@)]
    /\ UNCHANGED <<dev, arr, sessionVars, prog, kern, launches>>

\* The device executes the next command of an in-order queue: a kernel
\* launch runs its work items; a read copies the buffer to the host and
\* lets the blocked caller return.
DeviceStep(q, zdiv) ==
    /\ cmds[q] # <<>>
    /\ zdiv \in Elem
    /\ LET cmd == Head(cmds[q]) IN
       IF cmd.kind = "kernel"
       THEN /\ zdiv = 0 \/ DividesByZero(cmd)
            /\ mem' = RunKernel(mem, cmd, 0, zdiv)
            /\ UNCHANGED <<last, hostpc>>
       ELSE /\ zdiv = 0
            /\ last' = [last EXCEPT !.out = mem[cmd.c].content]
            /\ hostpc' = "idle"
            /\ UNCHANGED mem
    /\ cmds' = [cmds EXCEPT ![q] = Tail(@)]
    /\ UNCHANGED <<dev, arr, sessionVars, prog, kern, launches>>

\* ------------------------------------------------------------------- specs
SessionNext ==
    \/ \E d \in DevIds, c0, q0 \in Indeterminate(MaxCtx), v0 \in {NULL, TheDevice} :
          DefaultConstruct(d, c0, q0, v0)
    \/ \E d \in DevIds, fault \in OpenFaults : Open(d, fault)
    \/ \E d, o \in DevIds : MoveConstruct(d, o)
    \/ \E d, o \in DevIds : MoveAssign(d, o)
    \/ \E d \in DevIds : Destroy(d)

\* What the platform does to a dispatch: the primitive it fails (if any) and
\* the bytes found behind kernString.
DispatchOutcomes ==
    {<<f, "intact">> : f \in DispatchFaults}
        \cup {<<"none", "uncompilable">>, <<"none", "nokernel">>}

\* The caller's buffers, dispatches and reads and the device's steps, with
\* the caller's choices (access modes, operations, read forms) and the
\* platform's failures drawn from the given sets.
Buffers(modes, arrayFaults) ==
    \E x \in ArrIds, d \in DevIds, acc \in modes, n \in Lens, fault \in arrayFaults :
       ArrayCreate(x, d, acc, HostVector(x, n), fault)

\* The dispatches on buffers (a, b, c) drawn from triples, while fewer than
\* budget programs have been created.
Dispatches(fns, triples, outcomes, budget) ==
    \E d \in DevIds, fn \in fns, t \in triples, o \in outcomes :
       /\ Len(prog) < budget
       /\ Dispatch(d, fn, t[1], t[2], t[3], o[1], o[2])

Reads(forms, readFaults) ==
    \E x \in ArrIds, form \in forms, cap \in Lens \cup {0}, fault \in readFaults,
       stale \in Indeterminate(MaxCtx) : ReadCall(x, form, cap, fault, stale)

Device == \E q \in CtxIds, zdiv \in Elem : DeviceStep(q, zdiv)

AllTriples == ArrIds \X ArrIds \X ArrIds

\* dev.add(clA, clB, clC) of src/main.cpp:51: the first three buffers.
MainTriple == {<<1, 2, 3>>}

Next ==
    \/ SessionNext
    \/ Buffers(AccessType, ArrayFaults)
    \/ Dispatches(Fns, AllTriples, DispatchOutcomes, MaxRepeat)
    \/ Reads(ReadForms, ReadFaults)
    \/ Device

Spec == Init /\ [][Next]_vars

\* The platform fails no primitive of its own accord: a dispatch succeeds or
\* fails by the bytes found behind kernString alone.
DanglingOutcomes == {<<"none", bytes>> : bytes \in SourceOutcomes}

\* One session and its buffers; every overload is dispatched on every choice
\* of buffers.
ChecksNext ==
    \/ Open(1, "none")
    \/ Buffers(AccessType, {"none"})
    \/ Dispatches(Fns, AllTriples, DanglingOutcomes, MaxProg)
    \/ Device

ChecksSpec == Init /\ [][ChecksNext]_vars

\* The program of src/main.cpp: a session, three buffers, a dispatch of any
\* overload and the read of any buffer; the platform may fail any primitive
\* of the dispatch.
FunctionalNext ==
    \/ Open(1, "none")
    \/ Buffers(AccessType, {"none"})
    \/ Dispatches(Fns, MainTriple, DispatchOutcomes, MaxProg)
    \/ Reads({"vector"}, {"none"})
    \/ Device

FunctionalSpec == Init /\ [][FunctionalNext]_vars

\* A session on which dispatches are repeated, with the platform free to fail
\* any primitive, until the session is destroyed.
RepeatNext ==
    \/ Open(1, "none")
    \/ Buffers(AccessType, {"none"})
    \/ Dispatches(Fns, MainTriple, DispatchOutcomes, MaxRepeat)
    \/ Device
    \/ Destroy(1)

RepeatSpec == Init /\ [][RepeatNext]_vars

\* The lifecycle of the Device objects alone.
SessionSpec == Init /\ [][SessionNext]_vars

\* The lifecycle of the Device objects that come from opens and moves: no
\* object is default-constructed.
OwnedNext ==
    \/ \E d \in DevIds, fault \in OpenFaults : Open(d, fault)
    \/ \E d, o \in DevIds : MoveConstruct(d, o)
    \/ \E d, o \in DevIds : MoveAssign(d, o)
    \/ \E d \in DevIds : Destroy(d)

OwnedSpec == Init /\ [][OwnedNext]_vars

\* A session, its buffers, dispatches on the first three and reads of every
\* form into targets of every capacity, which the platform may fail.
ReadNext ==
    \/ Open(1, "none")
    \/ Buffers(AccessType, {"none"})
    \/ Dispatches(Fns, MainTriple, DanglingOutcomes, MaxProg)
    \/ Reads(ReadForms, ReadFaults)
    \/ Device

ReadSpec == Init /\ [][ReadNext]_vars

\* dev.op1(clA, clB, clC); dev.op2(clC, clB, clA): the output of the first
\* dispatch is an input of the second.
ChainTriples == {<<1, 2, 3>>, <<3, 2, 1>>}

\* A session, its buffers, chained dispatches and reads.
ChainNext ==
    \/ Open(1, "none")
    \/ Buffers(AccessType, {"none"})
    \/ Dispatches(Fns, ChainTriples, DanglingOutcomes, MaxRepeat)
    \/ Reads({"vector"}, {"none"})
    \/ Device

ChainSpec == Init /\ [][ChainNext]_vars

\* The lifecycle of the Array objects of one session: constructions (which
\* the platform may fail), moves and destructions.
ArrayNext ==
    \/ Open(1, "none")
    \/ Buffers(AccessType, ArrayFaults)
    \/ \E x, o \in ArrIds : ArrayMoveConstruct(x, o)
    \/ \E x, o \in ArrIds : ArrayMoveAssign(x, o)
    \/ \E x \in ArrIds : ArrayDestroy(x)

ArraySpec == Init /\ [][ArrayNext]_vars

\* The lifetimes of a session and of its buffers: the buffers are created,
\* moved and destroyed, and the session is move-assigned and destroyed, in any
\* order.
LifetimeNext ==
    \/ Open(1, "none")
    \/ Buffers(AccessType, {"none"})
    \/ \E x, o \in ArrIds : ArrayMoveConstruct(x, o)
    \/ \E x, o \in ArrIds : ArrayMoveAssign(x, o)
    \/ \E x \in ArrIds : ArrayDestroy(x)
    \/ \E d, o \in DevIds : MoveAssign(d, o)
    \/ \E d \in DevIds : Destroy(d)

LifetimeSpec == Init /\ [][LifetimeNext]_vars

\* The buffers of a session change owners while they are used: move
\* constructions and move assignments between dispatches and reads.
OwnershipNext ==
    \/ Open(1, "none")
    \/ Buffers(AccessType, {"none"})
    \/ \E x, o \in ArrIds : ArrayMoveConstruct(x, o)
    \/ \E x, o \in ArrIds : ArrayMoveAssign(x, o)
    \/ Dispatches({"add"}, MainTriple, {<<"none", "intact">>}, MaxProg)
    \/ Reads({"vector"}, {"none"})
    \/ Device

OwnershipSpec == Init /\ [][OwnershipNext]_vars

\* A session, its buffers, dispatches and reads until the session is
\* destroyed, on a device that eventually executes the command at the head of
\* a queue that is not empty.
ProgressNext ==
    \/ Open(1, "none")
    \/ Buffers(AccessType, {"none"})
    \/ Dispatches(Fns, MainTriple, DanglingOutcomes, MaxProg)
    \/ Reads({"vector"}, ReadFaults)
    \/ Device
    \/ Destroy(1)

ProgressSpec == Init /\ [][ProgressNext]_vars /\ WF_vars(Device)

\* The same program on a device that need not ever execute anything.
StalledSpec == Init /\ [][ProgressNext]_vars

\* Two sessions, buffers created on either, move assignments between the
\* buffers, and reads.
TwoSessions == {1, 2}

CrossNext ==
    \/ \E d \in TwoSessions : Open(d, "none")
    \/ Buffers({READ_WRITE}, {"none"})
    \/ \E x, o \in ArrIds : ArrayMoveAssign(x, o)
    \/ Reads({"vector"}, {"none"})
    \/ Device

CrossSpec == Init /\ [][CrossNext]_vars

\* A session with buffers is moved into other session objects, by move
\* construction and by move assignment, and the buffers are read.
HandoverNext ==
    \/ Open(1, "none")
    \/ Buffers({READ_WRITE}, {"none"})
    \/ \E d, o \in DevIds : MoveConstruct(d, o)
    \/ \E d, o \in DevIds : MoveAssign(d, o)
    \/ Reads({"vector"}, {"none"})
    \/ Device

HandoverSpec == Init /\ [][HandoverNext]_vars

\* A session with buffers is moved into other session objects, and
\* dispatches are invoked on every session object, moved-from ones included.
MovedFromNext ==
    \/ Open(1, "none")
    \/ Buffers({READ_WRITE}, {"none"})
    \/ \E d, o \in DevIds : MoveConstruct(d, o)
    \/ \E d, o \in DevIds : MoveAssign(d, o)
    \/ Dispatches(Fns, MainTriple, DanglingOutcomes, MaxProg)
    \/ Device

MovedFromSpec == Init /\ [][MovedFromNext]_vars

\* The generated kernel as a function of its arguments and of the grid: the
\* session of src/main.cpp with its three buffers (a READ_ONLY, b READ_ONLY,
\* c WRITE_ONLY) of n elements, b holding any values, and a launch of the
\* kernel of fn on a grid of n..MaxGrid work items at the head of the queue.
KernelInit ==
    \E fn \in Fns, n \in Lens, grid \in 0..MaxGrid, hostB \in [1..MaxLen -> Elem] :
       LET a == HostVector(1, n)
           b == SubSeq(hostB, 1, n)
           c == Zeros(n)
           object(acc, h, dat) ==
               [st |-> "object", device |-> 1, data |-> h, access |-> acc,
                size |-> n, host |-> dat]
           source == makeKernelFunction(GeneratedName(fn), TypeName(fn), OpOperator(fn))
           cmd == [kind |-> "kernel", fn |-> fn, kernel |-> 1,
                   opOperator |-> source.opOperator,
                   a |-> 1, b |-> 2, c |-> 3, s |-> n, gws |-> grid]
       IN
       /\ grid >= n
       /\ dev = [d \in DevIds |->
                   IF d = 1
                   THEN [st |-> "object", context |-> 1, queue |-> 1,
                         device |-> TheDevice]
                   ELSE Unborn]
       /\ arr = [x \in ArrIds |->
                   CASE x = 1 -> object(READ_ONLY, 1, a)
                     [] x = 2 -> object(READ_ONLY, 2, b)
                     [] x = 3 -> object(WRITE_ONLY, 3, c)
                     [] OTHER -> NoArray]
       /\ nCtx = 1
       /\ nQueue = 1
       /\ ctxRel = [h \in HandleValues |-> 0]
       /\ queueRel = [h \in HandleValues |-> 0]
       /\ queueCtx = [h \in CtxIds |-> IF h = 1 THEN 1 ELSE NULL]
       /\ mem = <<CreateBuffer(1, READ_ONLY, a, Zeros(n)),
                  CreateBuffer(1, READ_ONLY, b, Zeros(n)),
                  CreateBuffer(1, WRITE_ONLY, c, Zeros(n))>>
       /\ prog = <<[ctx |-> 1, src |-> source, bytes |-> "intact",
                    built |-> TRUE, rel |-> 1]>>
       /\ kern = <<[prog |-> 1, name |-> KernelName(fn), rel |-> 1]>>
       /\ cmds = [h \in CtxIds |-> IF h = 1 THEN <<cmd>> ELSE <<>>]
       /\ launches = <<cmd>>
       /\ hostpc = "idle"
       /\ last = Result(fn, <<1, 1, 2, 3>>, NoErr, DispatchCalls(1, 1, 2, 3, 1, 1))

KernelSpec == KernelInit /\ [][Device]_vars

\* ------------------------------------------------------------------ claims
\* The read of the output buffer of dev.fn(clA, clB, clC) has returned, the
\* launch having been enqueued before it.
ReadBack ==
    /\ last.op = "vector" /\ last.err = NoErr /\ hostpc = "idle"
    /\ last.args[1] = 3
    /\ Len(launches) = 1

\* C1: after a dispatch of add, sub, mul or div on a and b of c's length
\* and of valid modes, followed by a read of c, element i of what was read
\* is a[i] op b[i], for every i (a division by zero excepted).
C1_ElementwiseResult ==
    ReadBack =>
       \A i \in 1..arr[3].size :
          \/ launches[1].opOperator = "/" /\ arr[2].host[i] = 0
          \/ last.out[i] = ApplyOp(launches[1].opOperator,
                                   arr[1].host[i], arr[2].host[i], 0)

\* A step that is a call of add, sub, mul or div, and its three buffers.
DispatchStep == last' # last /\ last'.op \in Fns
ArgA == arr[last'.args[2]]
ArgB == arr[last'.args[3]]
ArgC == arr[last'.args[4]]

\* What the modes permit, by the names of the modes.
PermitsRead(a) == a.access \in {READ_ONLY, READ_WRITE}
PermitsWrite(a) == a.access \in {WRITE_ONLY, READ_WRITE}

\* Neither the platform nor the device is touched by the step.
NothingDone ==
    /\ last'.calls = <<>>
    /\ UNCHANGED <<prog, kern, cmds, launches, mem>>

\* C2: a dispatch whose output buffer c is READ_ONLY raises the permission
\* error, having created and built no program, created no kernel, set no
\* argument and enqueued nothing.
C2_ReadOnlyOutputRejected ==
    [][(DispatchStep /\ ArgC.access = READ_ONLY)
          => (last'.err = PermissionError /\ NothingDone)]_vars

\* A dispatch on readable a and b of c's size was rejected because c is
\* READ_ONLY.
C2_Witness ==
    /\ last.op \in Fns
    /\ last.err = PermissionError
    /\ arr[last.args[4]].access = READ_ONLY
    /\ PermitsRead(arr[last.args[2]]) /\ PermitsRead(arr[last.args[3]])
    /\ arr[last.args[2]].size = arr[last.args[4]].size
    /\ arr[last.args[3]].size = arr[last.args[4]].size

\* The sizes of a and c, or of b and c, differ.
Mismatched == ArgA.size # ArgC.size \/ ArgB.size # ArgC.size

\* C3 (as stated): a dispatch with mismatched lengths raises the size error
\* and leaves the device content of every buffer as it was.
C3_MismatchAlwaysShapeError ==
    [][(DispatchStep /\ Mismatched)
          => (last'.err = ShapeError /\ UNCHANGED mem)]_vars

\* C3 (amended): a dispatch with mismatched lengths raises the size error
\* when a and b permit read and c permits write, and the permission error
\* otherwise; either way nothing is created or enqueued and the device
\* content of every buffer is as it was.
C3_MismatchRejected ==
    [][(DispatchStep /\ Mismatched)
          => /\ last'.err =
                   IF PermitsRead(ArgA) /\ PermitsRead(ArgB) /\ PermitsWrite(ArgC)
                   THEN ShapeError ELSE PermissionError
             /\ NothingDone]_vars

\* A dispatch on buffers of valid modes was rejected for b's size alone.
C3_Witness ==
    /\ last.op \in Fns
    /\ last.err = ShapeError
    /\ arr[last.args[2]].size = arr[last.args[4]].size
    /\ arr[last.args[3]].size # arr[last.args[4]].size

\* C4: checkAccess accepts a buffer for reading exactly when its mode is
\* READ_ONLY or READ_WRITE and for writing exactly when it is WRITE_ONLY or
\* READ_WRITE, and a dispatch gets past the access check exactly when a and
\* b permit read and c permits write.
C4_AccessCheck ==
    [][DispatchStep
          => /\ \A x \in {ArgA, ArgB, ArgC} :
                   /\ checkAccess(x, READ) <=> PermitsRead(x)
                   /\ checkAccess(x, WRITE) <=> PermitsWrite(x)
             /\ last'.err # PermissionError
                   <=> (PermitsRead(ArgA) /\ PermitsRead(ArgB)
                           /\ PermitsWrite(ArgC))]_vars

\* A dispatch on READ_WRITE a, READ_ONLY b and WRITE_ONLY c got past both
\* checks and was enqueued.
C4_Witness ==
    /\ last.op \in Fns
    /\ last.err = NoErr
    /\ arr[last.args[2]].access = READ_WRITE
    /\ arr[last.args[3]].access = READ_ONLY
    /\ arr[last.args[4]].access = WRITE_ONLY

\* The operation of the step was launched before on this session.
LaunchedBefore == \E i \in 1..Len(launches) : launches[i].fn = last'.op

\* C5: a dispatch of an operation already dispatched with success on the
\* session creates and builds no program and creates no kernel.
C5_CompiledOnce ==
    [][(DispatchStep /\ LaunchedBefore) => UNCHANGED <<prog, kern>>]_vars

\* C6: once the session is destroyed every program and every kernel a
\* dispatch created has been released exactly once.
C6_ProgramsAndKernelsReleased ==
    dev[1].st = "destroyed" =>
       /\ \A p \in 1..Len(prog) : prog[p].rel = 1
       /\ \A k \in 1..Len(kern) : kern[k].rel = 1

Objects == {d \in DevIds : dev[d].st = "object"}

\* The context a failed Device(pf,dev) call obtained before it threw.
OpenedContext == last.calls[1][3]

\* C7: when opening a session fails at the creation of the command queue,
\* after the context was created, the context has been released when the
\* error reaches the caller: nothing that open acquired is still live.
C7_FailedOpenLeavesNothingLive ==
    (last.op = "Device(pf,dev)"
        /\ last.err = "clCreateCommandQueueWithProperties")
    => ~ContextLive(OpenedContext)

\* C8: the context and the queue of every session object are both live
\* handles or both null.
C8_BothLiveOrBothNull ==
    \A d \in Objects :
       \/ ContextLive(dev[d].context) /\ QueueLive(dev[d].queue)
       \/ dev[d].context = NULL /\ dev[d].queue = NULL

\* C9: no two distinct session objects hold the same non-null queue handle
\* or the same non-null context handle.
C9_NoSharedHandle ==
    \A d, e \in Objects :
       d # e =>
          /\ dev[d].queue # NULL => dev[d].queue # dev[e].queue
          /\ dev[d].context # NULL => dev[d].context # dev[e].context

\* Two session objects exist, one of which has just adopted the handles of
\* the other by a move.
C9_Witness ==
    /\ last.op \in {"Device(Device&&)", "operator=(Device&&)"}
    /\ Len(last.args) = 2
    /\ last.args[1] # last.args[2]
    /\ {last.args[1], last.args[2]} \subseteq Objects
    /\ QueueLive(dev[last.args[1]].queue)
    /\ ContextLive(dev[last.args[1]].context)

\* The handles successful opens acquired: every queue, and its context.
OpenedQueues == 1..nQueue
OpenedContexts == {queueCtx[q] : q \in OpenedQueues}

\* C10: no context or queue is released twice, none is released that was
\* never acquired, and once no session object is left every context and
\* queue a successful open acquired has been released exactly once.
C10_ReleasedExactlyOnce ==
    /\ \A h \in HandleValues : ctxRel[h] <= 1 /\ queueRel[h] <= 1
    /\ \A h \in HandleValues : ctxRel[h] > 0 => h \in 1..nCtx
    /\ \A h \in HandleValues : queueRel[h] > 0 => h \in 1..nQueue
    /\ Objects = {} =>
          /\ \A q \in OpenedQueues : queueRel[q] = 1
          /\ \A c \in OpenedContexts : ctxRel[c] = 1

\* Every session object is gone, the last one destroyed was a moved-from
\* one (its destructor released nothing), and every session opened has had
\* its queue and context released.
C10_Witness ==
    /\ Objects = {}
    /\ last.op = "~Device()"
    /\ last.calls = <<>>
    /\ nQueue = MaxCtx
    /\ \A q \in OpenedQueues : queueRel[q] = 1 /\ ctxRel[queueCtx[q]] = 1


\* The destination d holds what the source o held, and o holds null twice.
Transferred(d, o) ==
    /\ dev'[d].context = dev[o].context /\ dev'[d].queue = dev[o].queue
    /\ dev'[o].context = NULL /\ dev'[o].queue = NULL

\* The step released the queue and the context d held before it, each once
\* if it was not null, and nothing else.
OwnReleased(d) ==
    /\ \A h \in HandleValues :
          /\ queueRel'[h] = queueRel[h] + (IF h = dev[d].queue THEN 1 ELSE 0)
          /\ ctxRel'[h] = ctxRel[h] + (IF h = dev[d].context THEN 1 ELSE 0)
    /\ \A i \in 1..Len(last'.calls) :
          last'.calls[i][2] \in {dev[d].queue, dev[d].context}

\* C11 (as stated): every move construction and every move assignment
\* leaves the destination with the source's context and queue and the
\* source with null twice.
C11_EveryMoveTransfers ==
    [][\A d, o \in DevIds :
          (MoveConstruct(d, o) \/ MoveAssign(d, o)) => Transferred(d, o)]_vars

\* C11 (amended): a move construction, and a move assignment to another
\* object, leave the destination with the source's context and queue and
\* the source with null twice; the move assignment releases what the
\* destination held before, not what it adopts; a move assignment of an
\* object to itself changes and releases nothing.
C11_MoveTransfers ==
    [][\A d, o \in DevIds :
          /\ MoveConstruct(d, o)
                => Transferred(d, o) /\ UNCHANGED <<queueRel, ctxRel>>
          /\ (MoveAssign(d, o) /\ d # o) => Transferred(d, o) /\ OwnReleased(d)
          /\ (MoveAssign(d, o) /\ d = o) => UNCHANGED <<dev, queueRel, ctxRel>>]_vars

\* A live session has just been assigned the handles of another live one:
\* its own two handles were released and the source holds null.
C11_Witness ==
    /\ last.op = "operator=(Device&&)"
    /\ last.args[1] # last.args[2]
    /\ Len(last.calls) = 2
    /\ ContextLive(dev[last.args[1]].context) /\ QueueLive(dev[last.args[1]].queue)
    /\ dev[last.args[2]].context = NULL /\ dev[last.args[2]].queue = NULL

\* A step that tears session d down: its destructor, or a move assignment
\* to it from another object.
Teardown(d) == Destroy(d) \/ \E o \in DevIds \ {d} : MoveAssign(d, o)

\* C12: a teardown (destructor, or move assignment over the session)
\* releases the queue before the context, and the teardown of a session
\* whose context and queue are null makes no release call.
C12_QueueBeforeContext ==
    [][\A d \in DevIds :
          Teardown(d) =>
             /\ \A i, j \in 1..Len(last'.calls) :
                   (last'.calls[i][1] = "clReleaseCommandQueue"
                       /\ last'.calls[j][1] = "clReleaseContext") => i < j
             /\ dev[d].queue # NULL =>
                   \E i \in 1..Len(last'.calls) :
                      last'.calls[i] = Call("clReleaseCommandQueue", dev[d].queue, NULL)
             /\ dev[d].context # NULL =>
                   \E i \in 1..Len(last'.calls) :
                      last'.calls[i] = Call("clReleaseContext", dev[d].context, NULL)
             /\ (dev[d].queue = NULL /\ dev[d].context = NULL) =>
                   last'.calls = <<>> /\ UNCHANGED <<queueRel, ctxRel>>]_vars

\* A live session was destroyed: two release calls, the queue's first.
C12_Witness ==
    /\ last.op = "~Device()"
    /\ Len(last.calls) = 2
    /\ last.calls[1][1] = "clReleaseCommandQueue"
    /\ last.calls[2][1] = "clReleaseContext"
    /\ queueRel[last.calls[1][2]] = 1 /\ ctxRel[last.calls[2][2]] = 1


ArrayObjects == {x \in ArrIds : arr[x].st = "object"}

\* C13: no allocation is released twice; once no Array object is left every
\* allocation a constructor created has been released exactly once; the
\* destructor of an Array whose handle is null releases nothing.
C13_AllocationsReleasedOnce ==
    [][/\ \A h \in 1..Len(mem') : mem'[h].rel <= 1
       /\ ArrayObjects' = {} => \A h \in 1..Len(mem') : mem'[h].rel = 1
       /\ \A x \in ArrIds :
             (ArrayDestroy(x) /\ arr[x].data = NULL)
                => (UNCHANGED mem /\ last'.calls = <<>>)]_vars

\* Every Array is gone, the last one destroyed was a moved-from one, and
\* the allocations created (two at least) have each been released once.
C13_Witness ==
    /\ ArrayObjects = {}
    /\ last.op = "~Array()" /\ last.calls = <<>>
    /\ Len(mem) >= 2
    /\ \A h \in 1..Len(mem) : mem[h].rel = 1

\* The destination x holds the handle, size and mode the source o held, and
\* o holds a null handle and size 0.
ArrayTransferred(x, o) ==
    /\ arr'[x].data = arr[o].data
    /\ arr'[x].size = arr[o].size
    /\ arr'[x].access = arr[o].access
    /\ arr'[o].data = NULL /\ arr'[o].size = 0

\* C14 (as stated): after every buffer move, construction or assignment,
\* the destination holds the source's handle, size and mode and the source
\* a null handle and size 0.
C14_EveryArrayMoveTransfers ==
    [][\A x, o \in ArrIds :
          (ArrayMoveConstruct(x, o) \/ ArrayMoveAssign(x, o))
             => ArrayTransferred(x, o)]_vars

\* C14 (amended): after a buffer move construction, and after a buffer move
\* assignment from another object, the destination holds the source's
\* handle, size and mode and the source a null handle and size 0; a move
\* assignment of a buffer to itself changes nothing.
C14_ArrayMoveTransfers ==
    [][\A x, o \in ArrIds :
          /\ (ArrayMoveConstruct(x, o) \/ (ArrayMoveAssign(x, o) /\ x # o))
                => ArrayTransferred(x, o)
          /\ (ArrayMoveAssign(x, o) /\ x = o) => UNCHANGED <<arr, mem>>]_vars

\* A buffer that held an allocation has just been assigned the allocation
\* of another: it holds the live handle, the source a null one.
C14_Witness ==
    /\ last.op = "operator=(Array&&)"
    /\ last.args[1] # last.args[2]
    /\ last.calls # <<>>
    /\ MemLive(arr[last.args[1]].data)
    /\ arr[last.args[1]].size > 0
    /\ arr[last.args[2]].data = NULL /\ arr[last.args[2]].size = 0

\* C15: the allocation of a WRITE_ONLY buffer is created without the flag
\* that copies the host data into it; that of a READ_ONLY or READ_WRITE
\* buffer is created with it and holds the host data.
C15_WriteOnlyNotUploaded ==
    \A x \in ArrayObjects :
       arr[x].data # NULL =>
          IF arr[x].access = WRITE_ONLY
          THEN ~HasFlag(mem[arr[x].data].flags, CL_MEM_COPY_HOST_PTR)
          ELSE HasFlag(mem[arr[x].data].flags, CL_MEM_COPY_HOST_PTR)

\* A read of buffer x has returned without error.
ReadReturned(x) ==
    /\ last.op \in ReadForms /\ last.err = NoErr /\ hostpc = "idle"
    /\ last.args[1] = x

\* No launch enqueued so far writes the allocation of x.
NotDispatchedInto(x) ==
    \A i \in 1..Len(launches) : launches[i].c # arr[x].data

\* C16: a READ_ONLY or READ_WRITE buffer read back with no dispatch into it
\* since its construction gives a destination equal to the host array it
\* was constructed from, in length and in every element.
C16_RoundTrip ==
    \A x \in ArrayObjects :
       (ReadReturned(x) /\ arr[x].access \in {READ_ONLY, READ_WRITE}
           /\ NotDispatchedInto(x))
       => /\ Len(last.out) = Len(arr[x].host)
          /\ \A i \in 1..Len(arr[x].host) : last.out[i] = arr[x].host[i]

\* The first buffer, READ_ONLY and built from MaxLen elements that are not
\* all zero, was read back into a fixed-size array.
C16_Witness ==
    /\ ReadReturned(1)
    /\ last.op = "array"
    /\ arr[1].access = READ_ONLY
    /\ arr[1].size = MaxLen
    /\ last.out = arr[1].host
    /\ \E i \in 1..MaxLen : last.out[i] # 0

\* A step that is a call of read (not the device completing one).
ReadStep == hostpc = "idle" /\ last' # last /\ last'.op \in ReadForms

\* C17: a read, of any form, into a destination whose capacity differs from
\* the buffer's element count raises the size error and enqueues no
\* transfer.
C17_CapacityMismatchRejected ==
    [][(ReadStep /\ last'.args[2] # arr[last'.args[1]].size)
          => (last'.err = SizeError /\ last'.calls = <<>> /\ UNCHANGED cmds)]_vars

\* No launch that writes the allocation of x is waiting in a queue.
NoPendingWrite(x) ==
    \A q \in CtxIds : \A i \in 1..Len(cmds[q]) :
       cmds[q][i].kind = "kernel" => cmds[q][i].c # arr[x].data

\* Two launches were enqueued: op1 on (1, 2, 3), then op2 on (3, 2, 1).
Chained ==
    /\ Len(launches) = 2
    /\ launches[1].a = arr[1].data /\ launches[1].b = arr[2].data
    /\ launches[1].c = arr[3].data
    /\ launches[2].a = arr[3].data /\ launches[2].b = arr[2].data
    /\ launches[2].c = arr[1].data

\* C18: when a read of a buffer has returned, every launch enqueued before
\* it that writes the buffer has executed; and after op1(A, B, C), then
\* op2(C, B, D), the read of D gives op2(op1(A[i], B[i]), B[i]) for every i.
C18_ReadAfterChain ==
    \A x \in ArrayObjects :
       ReadReturned(x) =>
          /\ NoPendingWrite(x)
          /\ (x = 1 /\ Chained) =>
                \A i \in 1..arr[1].size :
                   last.out[i] =
                      ApplyOp(launches[2].opOperator,
                              ApplyOp(launches[1].opOperator,
                                      arr[1].host[i], arr[2].host[i], 0),
                              arr[2].host[i], 0)

\* The build of a program of operation fn has failed before.
BuildFailedBefore(fn) ==
    \E p \in 1..Len(prog) : ~prog[p].built /\ prog[p].src.name = KernelName(fn)

\* The step got past the two checks of a dispatch.
PastChecks == last'.err \notin {PermissionError, ShapeError}

\* C19: a dispatch whose build fails raises the build error and leaves no
\* built program, no kernel and no launch; a later dispatch of the same
\* operation creates and builds a program anew, and succeeds when the
\* platform fails nothing this time.
C19_FailedBuildNotRemembered ==
    [][/\ (DispatchStep /\ last'.err = "clBuildProgram")
             => /\ Len(prog') = Len(prog) + 1
                /\ ~prog'[Len(prog')].built
                /\ UNCHANGED <<kern, cmds, launches, mem>>
       /\ (DispatchStep /\ BuildFailedBefore(last'.op) /\ PastChecks)
             => /\ last'.calls[1][1] = "clCreateProgramWithSource"
                /\ last'.err # "clCreateProgramWithSource"
                      => /\ last'.calls[2] =
                               Call("clBuildProgram", Len(prog) + 1, TheDevice)
                         /\ last'.err # "clBuildProgram"
                               => prog'[Len(prog')].built
       /\ \A d \in DevIds, fn \in Fns :
             (Dispatch(d, fn, 1, 2, 3, "none", "intact")
                 /\ BuildFailedBefore(fn) /\ PassesChecks(1, 2, 3))
             => last'.err = NoErr]_vars

\* A dispatch has succeeded although the build of the program of an earlier
\* dispatch of the same operation had failed.
C19_Witness ==
    /\ last.op \in Fns /\ last.err = NoErr
    /\ Len(prog) = 2
    /\ ~prog[1].built /\ prog[1].src.name = KernelName(last.op)
    /\ prog[2].built

\* C20: a session object whose context and queue are null is never again
\* an object with a live context and a live queue, whatever is done to it
\* (a move assignment to it included).
C20_ClosedIsTerminal ==
    [][\A d \in DevIds :
          (dev[d].st \in {"object", "destroyed"}
              /\ dev[d].context = NULL /\ dev[d].queue = NULL)
          => ~(ContextLive(dev'[d].context) /\ QueueLive(dev'[d].queue))]_vars

\* The modes of the three buffers of the step permit the dispatch.
ModesValid == PermitsRead(ArgA) /\ PermitsRead(ArgB) /\ PermitsWrite(ArgC)

\* C21: the access check precedes the size check, which precedes every
\* platform call: a dispatch whose modes are invalid raises the permission
\* error whatever the sizes, the size error is raised only with valid
\* modes, and a platform call is made only with valid modes and equal sizes.
C21_CheckOrder ==
    [][DispatchStep =>
          /\ ~ModesValid => last'.err = PermissionError
          /\ last'.err = ShapeError => (ModesValid /\ Mismatched)
          /\ last'.calls # <<>> => (ModesValid /\ ~Mismatched)]_vars

\* A dispatch that breaks both rules (c is READ_ONLY and a has another size
\* than c) was rejected with the permission error.
C21_Witness ==
    /\ last.op \in Fns
    /\ last.err = PermissionError
    /\ arr[last.args[4]].access = READ_ONLY
    /\ arr[last.args[2]].size # arr[last.args[4]].size

\* The calls of the step that have the given name, in the order made.
CallsNamed(name) == SelectSeq(last'.calls, LAMBDA call : call[1] = name)

\* The positions of the calls of the step that have the given name.
PositionsOf(name) == {i \in 1..Len(last'.calls) : last'.calls[i][1] = name}

BindingFaults ==
    {"clSetKernelArg a", "clSetKernelArg b", "clSetKernelArg c", "clSetKernelArg s"}

\* C22: a successful dispatch binds argument 0 to a's allocation, 1 to b's,
\* 2 to c's and 3 to c's element count, in that order and before the
\* enqueue, and the launch carries these values; a dispatch in which the
\* platform fails a binding raises that binding's error and enqueues nothing.
C22_ArgumentsBoundInOrder ==
    [][/\ (DispatchStep /\ last'.err = NoErr) =>
             /\ CallsNamed("clSetKernelArg")
                   = <<Call("clSetKernelArg", 0, ArgA.data),
                       Call("clSetKernelArg", 1, ArgB.data),
                       Call("clSetKernelArg", 2, ArgC.data),
                       Call("clSetKernelArg", 3, ArgC.size)>>
             /\ \A i \in PositionsOf("clSetKernelArg"),
                   j \in PositionsOf("clEnqueueNDRangeKernel") : i < j
             /\ LET cmd == launches'[Len(launches')]
                IN <<cmd.a, cmd.b, cmd.c, cmd.s>>
                      = <<ArgA.data, ArgB.data, ArgC.data, ArgC.size>>
       /\ \A d \in DevIds, fn \in Fns, t \in MainTriple, fault \in BindingFaults :
             (/\ Dispatch(d, fn, t[1], t[2], t[3], fault, "intact")
              /\ ModesValid /\ ~Mismatched) =>
                /\ last'.err = fault
                /\ PositionsOf("clEnqueueNDRangeKernel") = {}
                /\ UNCHANGED <<cmds, launches>>]_vars

\* A dispatch on three distinct allocations has succeeded.
C22_Witness ==
    /\ last.op \in Fns
    /\ last.err = NoErr
    /\ Cardinality({arr[last.args[i]].data : i \in 2..4}) = 3
    /\ launches # <<>>

\* The queue of the session of the step.
StepQueue == dev[last'.args[1]].queue

\* C23: a successful dispatch appends exactly one kernel launch to the
\* session's queue and to no other; the launch requests as many work items
\* as c has elements, and its element-count argument is that same number.
C23_OneLaunchPerDispatch ==
    [][(DispatchStep /\ last'.err = NoErr) =>
          LET cmd == cmds'[StepQueue][Len(cmds'[StepQueue])]
          IN /\ StepQueue \in CtxIds
             /\ cmds' = [cmds EXCEPT ![StepQueue] = Append(@, cmd)]
             /\ launches' = Append(launches, cmd)
             /\ cmd.kind = "kernel"
             /\ cmd.gws = ArgC.size
             /\ cmd.s = ArgC.size
             /\ CallsNamed("clEnqueueNDRangeKernel")
                   = <<Call("clEnqueueNDRangeKernel", StepQueue, ArgC.size)>>]_vars

\* The second successful dispatch of a session on buffers of MaxLen elements
\* has returned.
C23_Witness ==
    /\ last.op \in Fns
    /\ last.err = NoErr
    /\ Len(launches) = 2
    /\ launches[2].gws = MaxLen

\* The platform call made by primitive number i of a dispatch, and the
\* position of the kernel argument it binds.
StepPrimitive(i) == IF i \in 4..7 THEN "clSetKernelArg" ELSE Steps[i]
StepBinds(i, call) == i \in 4..7 => call[2] = i - 4

\* The primitive that a dispatch with outcome o fails at.
FailsAt(o) ==
    IF o[1] # "none" THEN CHOOSE i \in 1..Len(Steps) : Steps[i] = o[1]
    ELSE IF o[2] = "uncompilable" THEN 2 ELSE 3

\* C27: when primitive number i of a dispatch fails, the dispatch itself
\* returns that primitive's error, its platform calls are the primitives
\* 1..i once each in program order, the failing one last, and it enqueues
\* nothing.
C27_FailureStopsDispatch ==
    [][\A d \in DevIds, fn \in Fns, t \in MainTriple,
          o \in DispatchOutcomes \ {<<"none", "intact">>} :
          (/\ Dispatch(d, fn, t[1], t[2], t[3], o[1], o[2])
           /\ ModesValid /\ ~Mismatched) =>
             /\ last'.err = checkErr(TRUE, Steps[FailsAt(o)])
             /\ Len(last'.calls) = FailsAt(o)
             /\ \A i \in 1..FailsAt(o) :
                   /\ last'.calls[i][1] = StepPrimitive(i)
                   /\ StepBinds(i, last'.calls[i])
             /\ UNCHANGED <<cmds, launches>>]_vars

\* A dispatch has failed at the binding of c, after a and b were bound.
C27_Witness ==
    /\ last.op \in Fns
    /\ last.err = checkErr(TRUE, "clSetKernelArg c")
    /\ Len(last.calls) = 6
    /\ launches = <<>>

\* The work items of a launch whose guard lets them through.
Writers(cmd) == {g \in 0..(cmd.gws - 1) : Guard(ToInt(g), cmd.s)}

\* C24: when the device runs a launch of G >= N work items, the work items
\* that pass the guard are exactly 0..N-1, each of them stores element g of
\* c, a work item at or beyond N leaves every buffer as it is, and nothing
\* but the N elements of c changes.
C24_GuardedGrid ==
    [][\A q \in CtxIds, zdiv \in Elem :
          (DeviceStep(q, zdiv) /\ Head(cmds[q]).kind = "kernel") =>
             LET cmd == Head(cmds[q]) IN
             /\ Writers(cmd) = 0..(cmd.s - 1)
             /\ \A g \in 0..(cmd.gws - 1) :
                   g >= cmd.s => WorkItem(mem, cmd, g, zdiv) = mem
             /\ mem' = [mem EXCEPT ![cmd.c].content =
                           [i \in 1..cmd.s |->
                              ApplyOp(cmd.opOperator, mem[cmd.a].content[i],
                                      mem[cmd.b].content[i], zdiv)]]]_vars

\* The operator symbol of each operation family.
OperatorSymbol(fn) ==
    CASE fn = "add" -> "+" [] fn = "sub" -> "-" [] fn = "mul" -> "*" [] fn = "div" -> "/"

\* C25: there is one overload for each of the 4 x 10 (operation, element
\* type) pairs; each gives makeKernelFunction the name it gives
\* clCreateKernel, no two overloads use the same name, the operator passed is
\* the one of the operation, and the device type name passed denotes, in the
\* kernel language, the type of the host elements; so every kernel extracted
\* has the name its program was generated with.
C25_OverloadsConsistent ==
    /\ \A fn \in Fns, elem \in ElemTypes :
          Cardinality({o \in Overloads : o.fn = fn /\ o.elem = elem}) = 1
    /\ Cardinality(Overloads) = 40
    /\ \A o \in Overloads :
          /\ o.generated = o.extracted
          /\ \A other \in Overloads : other.generated = o.generated => other = o
          /\ o.opOperator = OperatorSymbol(o.fn)
          /\ DeviceType(o.typeName) = HostType(o.elem)
    /\ \A i \in 1..Len(kern) : kern[i].name = prog[kern[i].prog].src.name

\* The steps of the one generic dispatch, each with its error exit.
GenericBody ==
    <<<<"checkAccess", PermissionError>>, <<"getSize", ShapeError>>,
      <<"makeKernelFunction", NoErr>>,
      <<"clCreateProgramWithSource", Steps[1]>>, <<"clBuildProgram", Steps[2]>>,
      <<"clCreateKernel", Steps[3]>>,
      <<"clSetKernelArg 0 aMem", Steps[4]>>, <<"clSetKernelArg 1 bMem", Steps[5]>>,
      <<"clSetKernelArg 2 cMem", Steps[6]>>, <<"clSetKernelArg 3 s", Steps[7]>>,
      <<"clEnqueueNDRangeKernel", Steps[8]>>,
      <<"clReleaseKernel", NoErr>>, <<"clReleaseProgram", NoErr>>>>

\* The number of platform primitives among the first j steps of a body.
PrimitivesUpTo(body, j) ==
    Cardinality({i \in 1..j :
                    body[i][1] \notin {"checkAccess", "getSize", "makeKernelFunction"}})

\* C26: the body of every overload is the step sequence of the one generic
\* dispatch, with the same error exits; and a dispatch either succeeds,
\* having made every platform call of that body, or raises the exit of one
\* step of the body, having made the platform calls up to that step.
C26_OneGenericDispatch ==
    [][/\ \A fn \in Fns, elem \in ElemTypes : OverloadBody(fn, elem) = GenericBody
       /\ DispatchStep =>
             LET body == OverloadBody(last'.op, ElementType) IN
             \/ /\ last'.err = NoErr
                /\ Len(last'.calls) = PrimitivesUpTo(body, Len(body))
             \/ \E j \in 1..Len(body) :
                   /\ body[j][2] # NoErr
                   /\ last'.err = body[j][2]
                   /\ Len(last'.calls) = PrimitivesUpTo(body, j)]_vars

\* A dispatch of div has made every platform call of its body.
C26_Witness ==
    /\ last.op = "div"
    /\ last.err = NoErr
    /\ Len(last.calls) = PrimitivesUpTo(OverloadBody("div", ElementType), Len(GenericBody))

\* C28: a move assignment of a session to itself, and of a buffer to itself,
\* makes no platform call and leaves the handles, the element counts, the
\* access modes and the release counts of every object as they were.
C28_SelfAssignmentIsNoOp ==
    [][/\ \A d \in DevIds :
             MoveAssign(d, d) =>
                (last'.calls = <<>> /\ UNCHANGED <<dev, sessionVars, arr, mem>>)
       /\ \A x \in ArrIds :
             ArrayMoveAssign(x, x) =>
                (last'.calls = <<>> /\ UNCHANGED <<dev, sessionVars, arr, mem>>)]_vars

\* A buffer that owns a live allocation has just been move-assigned to
\* itself, its session being live.
C28_Witness ==
    /\ last.op = "operator=(Array&&)"
    /\ last.args[1] = last.args[2]
    /\ MemLive(arr[last.args[1]].data)
    /\ ContextLive(dev[1].context) /\ QueueLive(dev[1].queue)

\* The session has just been move-assigned to itself while it owns live
\* handles and has a live buffer.
C28_SessionWitness ==
    /\ last.op = "operator=(Device&&)"
    /\ last.args[1] = last.args[2]
    /\ ContextLive(dev[1].context) /\ QueueLive(dev[1].queue)
    /\ \E x \in ArrIds : MemLive(arr[x].data)

\* C30: the destruction of a buffer, whatever the state of its session,
\* releases the allocation the buffer owns, which was not released before,
\* makes no other platform call and leaves the session objects and the
\* context and queue handles as they were; no allocation is ever released
\* twice.
C30_BufferDestroyedAlone ==
    [][/\ \A h \in 1..Len(mem') : mem'[h].rel <= 1
       /\ \A x \in ArrIds :
             ArrayDestroy(x) =>
                LET h == arr[x].data IN
                /\ UNCHANGED <<dev, sessionVars>>
                /\ h # NULL => mem[h].rel = 0
                /\ mem' = IF h # NULL THEN [mem EXCEPT ![h].rel = 1] ELSE mem
                /\ \A i \in 1..Len(last'.calls) :
                      last'.calls[i][1] = "clReleaseMemObject"
                /\ Len(last'.calls) = IF h # NULL THEN 1 ELSE 0]_vars

\* A buffer was destroyed, and its allocation released, after the session it
\* was created on had been torn down.
C30_Witness ==
    /\ last.op = "~Array()"
    /\ Len(last.calls) = 1
    /\ dev[1].st = "destroyed"
    /\ ctxRel[1] = 1 /\ queueRel[1] = 1

\* C29: the access mode reported by the buffer object that owns an
\* allocation is the mode the allocation was created with.
C29_AccessModeFixed ==
    \A x \in ArrIds :
       (arr[x].st = "object" /\ arr[x].data # NULL) =>
          arr[x].access = mem[arr[x].data].flags

\* A buffer owns, by a move assignment, an allocation created with another
\* mode than the buffer's own, after a dispatch has written it and a read has
\* returned.
C29_Witness ==
    /\ last.op = "vector"
    /\ last.err = NoErr
    /\ hostpc = "idle"
    /\ launches # <<>>
    /\ \A q \in CtxIds : cmds[q] = <<>>
    /\ \E x \in ArrIds :
          /\ arr[x].st = "object"
          /\ arr[x].data \notin {NULL, x}
          /\ mem[arr[x].data].flags # mem[x].flags
          /\ mem[x].rel = 1

\* Every blocked read eventually returns, and every queue eventually drains.
ReadsReturn == (hostpc = "reading") ~> (hostpc = "idle")
QueuesDrain == \A q \in CtxIds : (cmds[q] # <<>>) ~> (cmds[q] = <<>>)

\* C31: on a device that eventually executes what is enqueued, every
\* blocking read eventually returns and every enqueued launch is eventually
\* executed; and a command leaves a queue only by the device executing it at
\* the head of the queue: no host call removes one.
C31_DeviceProgress ==
    /\ ReadsReturn
    /\ QueuesDrain
    /\ [][\A q \in CtxIds :
            cmds'[q] # cmds[q] =>
               \/ /\ cmds'[q] # <<>>
                  /\ cmds'[q] = Append(cmds[q], cmds'[q][Len(cmds'[q])])
               \/ \E zdiv \in Elem : DeviceStep(q, zdiv)]_vars

\* C31 (second half): without the assumption on the device, a read that was
\* issued need not return.  (Violated under StalledSpec.)
C31_ReadsReturnUnconditionally == ReadsReturn

\* A blocking read issued behind a launch has returned: the device has run
\* the launch and then the read.
C31_Witness ==
    /\ last.op \in ReadForms
    /\ last.err = NoErr
    /\ last.calls # <<>>
    /\ hostpc = "idle"
    /\ Len(launches) = 1
    /\ cmds[1] = <<>>

\* C32: a dispatch that ends with the permission error or with the size
\* error leaves the programs, the kernels, the queues, the launches, the
\* allocations and every buffer and session object as they were.
C32_RejectedDispatchChangesNothing ==
    [][(DispatchStep /\ last'.err \in {PermissionError, ShapeError}) =>
          UNCHANGED <<prog, kern, cmds, launches, mem, arr, dev, sessionVars,
                      hostpc>>]_vars

\* A dispatch on three live buffers with valid modes was rejected by the
\* size check.
C32_Witness ==
    /\ last.op \in Fns
    /\ last.err = ShapeError
    /\ \A i \in 2..4 : MemLive(arr[last.args[i]].data)
    /\ prog = <<>>

\* The session whose context an allocation was created in.
CreatedOn(h) == {d \in DevIds : dev[d].st = "object" /\ dev[d].context = mem[h].ctx}

\* C33: after a move assignment x = move(y) the session x refers to is the
\* one the adopted allocation was created on, and a read of a buffer is
\* enqueued on a queue of the context of the buffer's allocation.
C33_BackReferenceFollowsAllocation ==
    [][/\ \A x, o \in ArrIds :
             (ArrayMoveAssign(x, o) /\ x # o /\ arr[o].data # NULL) =>
                arr'[x].device \in CreatedOn(arr'[x].data)
       /\ (ReadStep /\ arr[last'.args[1]].data # NULL) =>
             queueCtx[QueueOf(last'.args[1], NULL)]
                = mem[arr[last'.args[1]].data].ctx]_vars

\* The queue handle passed to clEnqueueReadBuffer by the read of the step.
ReadQueue == last'.calls[1][2]

\* C34: a read of a buffer that owns a live allocation whose context is
\* live is enqueued on a live queue of that context, owned by a session
\* object, also after the session the buffer was created on has been moved
\* into another object; and it succeeds.
C34_ReadAfterSessionMove ==
    [][\A x \in ArrIds, cap \in Lens \cup {0} :
          (/\ ReadCall(x, "vector", cap, "none", NULL)
           /\ MemLive(arr[x].data)
           /\ ContextLive(mem[arr[x].data].ctx)) =>
             /\ ReadQueue # NULL
             /\ QueueLive(ReadQueue)
             /\ queueCtx[ReadQueue] = mem[arr[x].data].ctx
             /\ \E d \in DevIds : dev[d].st = "object" /\ dev[d].queue = ReadQueue
             /\ last'.err = NoErr]_vars

\* C35: a successful dispatch changes no buffer object and no allocation on
\* the host side; the execution of its launch changes the content of c
\* alone, within c's element count, so that a and b keep their content
\* when c is another allocation, and no handle, size or mode changes.
C35_OnlyOutputWritten ==
    [][/\ (DispatchStep /\ last'.err = NoErr) => UNCHANGED <<arr, mem>>
       /\ \A q \in CtxIds, zdiv \in Elem :
             (DeviceStep(q, zdiv) /\ Head(cmds[q]).kind = "kernel") =>
                LET cmd == Head(cmds[q]) IN
                /\ UNCHANGED arr
                /\ Len(mem') = Len(mem)
                /\ \A h \in 1..Len(mem) : h # cmd.c => mem'[h] = mem[h]
                /\ cmd.c \notin {cmd.a, cmd.b} =>
                      (mem'[cmd.a] = mem[cmd.a] /\ mem'[cmd.b] = mem[cmd.b])
                /\ cmd.c # NULL =>
                      /\ mem'[cmd.c] = [mem[cmd.c] EXCEPT !.content = mem'[cmd.c].content]
                      /\ DOMAIN mem'[cmd.c].content = 1..cmd.s]_vars

\* The launch of a dispatch whose output is another allocation than its
\* inputs has been executed and has changed the content of c.
C35_Witness ==
    /\ Len(launches) = 1
    /\ \A q \in CtxIds : cmds[q] = <<>>
    /\ LET l == launches[1] IN
       /\ l.c \notin {l.a, l.b}
       /\ \E x \in ArrIds : arr[x].data = l.c /\ mem[l.c].content # arr[x].host
       /\ \E x \in ArrIds : arr[x].data = l.a /\ mem[l.a].content = arr[x].host

\* The session object the dispatch of the step is invoked on.
StepSession == dev[last'.args[1]]

\* C36: a dispatch invoked on a session object whose context and queue are
\* null ends with an error, creates no program and no kernel, enqueues
\* nothing and makes no platform call after the attempt to create the
\* program.
C36_MovedFromSessionRejects ==
    [][(DispatchStep /\ StepSession.context = NULL /\ StepSession.queue = NULL) =>
          /\ last'.err # NoErr
          /\ UNCHANGED <<prog, kern, cmds, launches, mem>>
          /\ Len(last'.calls) <= 1]_vars

\* A dispatch with valid modes and sizes on a moved-from session has been
\* rejected at program creation.
C36_Witness ==
    /\ last.op \in Fns
    /\ dev[last.args[1]].st = "object"
    /\ dev[last.args[1]].context = NULL /\ dev[last.args[1]].queue = NULL
    /\ last.err = checkErr(TRUE, "clCreateProgramWithSource")
    /\ last.calls = <<Call("clCreateProgramWithSource", NULL, NULL)>>

\* C37: a successful dispatch releases the kernel and the program after the
\* enqueue, while the launch is still in the queue; and whenever the device
\* executes a launch, neither its kernel nor the program of that kernel has
\* been destroyed.
C37_LaunchOutlivesRelease ==
    [][/\ (DispatchStep /\ last'.err = NoErr) =>
             LET k == Len(kern')
                 n == Len(last'.calls) IN
             /\ last'.calls[n - 2][1] = "clEnqueueNDRangeKernel"
             /\ last'.calls[n - 1] = Call("clReleaseKernel", k, NULL)
             /\ last'.calls[n] = Call("clReleaseProgram", kern'[k].prog, NULL)
             /\ kern'[k].rel = 1 /\ prog'[kern'[k].prog].rel = 1
             /\ cmds'[StepQueue][Len(cmds'[StepQueue])].kernel = k
       /\ \A q \in CtxIds, zdiv \in Elem :
             (DeviceStep(q, zdiv) /\ Head(cmds[q]).kind = "kernel") =>
                /\ ~KernelDestroyed(Head(cmds[q]).kernel)
                /\ ~ProgramDestroyed(kern[Head(cmds[q]).kernel].prog)]_vars

\* Two launches are in the queue, not yet executed, and the host has
\* released the kernels and the programs of both.
C37_Witness ==
    /\ Len(cmds[1]) = 2
    /\ \A i \in 1..2 : cmds[1][i].kind = "kernel" /\ kern[cmds[1][i].kernel].rel = 1
    /\ \A p \in 1..Len(prog) : prog[p].rel = 1

\* C38: the guard admits every work-item index below the element count,
\* the indices that do not fit in the kernel's int included, and the work
\* item of index g stores element g; so the execution of a launch stores
\* every element of c below the count.
C38_GuardAdmitsEveryIndex ==
    [][\A q \in CtxIds, zdiv \in Elem :
          (DeviceStep(q, zdiv) /\ Head(cmds[q]).kind = "kernel") =>
             LET cmd == Head(cmds[q]) IN
             /\ \A g \in 0..(cmd.s - 1) :
                   /\ g < cmd.gws => Guard(ToInt(g), cmd.s)
                   /\ ToInt(g) = g
             /\ \A i \in 1..cmd.s :
                   mem'[cmd.c].content[i]
                      = ApplyOp(cmd.opOperator, mem[cmd.a].content[i],
                                mem[cmd.b].content[i], zdiv)]_vars

=============================================================================
